---- MODULE Spec2Model ----
(***************************************************************************)
(* Verification model of the PatternFly migration evaluation pipeline:     *)
(* the unified-diff parser (input/diff-parser.ts), the file matcher        *)
(* (analysis/file-matcher.ts), the pattern detectors (patterns/*.ts), the  *)
(* scoring engine (scoring/engine.ts), the noise detector                  *)
(* (scoring/noise-detector.ts) and the driver that chains them (index.ts). *)
(*                                                                         *)
(* Each component is a pure function of its inputs.  A component is        *)
(* modelled as operators that compute what the code computes, and is       *)
(* exercised by its own specification: Init draws the inputs from bounded  *)
(* sets and one action applies the function and stores its result.         *)
(*                                                                         *)
(* Strings are modelled as sequences of atoms.  An atom is a single        *)
(* character wherever the code inspects characters (prefixes, separators,  *)
(* digits) and an opaque run of characters elsewhere.                      *)
(***************************************************************************)
EXTENDS Integers, Sequences, FiniteSets, TLC

VARIABLES
    \* ---- analysis/file-matcher.ts
    goldenDiffs,      \* matchFiles argument: the golden FileDiff list
    migrationDiffs,   \* matchFiles argument: the migration FileDiff list
    matchResult,      \* the MatchResult returned by matchFiles
    mpc,              \* "idle" | "input" | "matched"
    \* ---- input/diff-parser.ts
    patch,            \* what the diff was written from (the writer's view)
    diffText,         \* parseDiff argument: the diff text, as its lines
    files,            \* the FileDiff list returned by parseDiff
    ppc,              \* "idle" | "input" | "parsed"
    \* ---- patterns/*.ts
    patternId,        \* the detector under evaluation
    goldenDiff,       \* detect argument 1
    migrationDiff,    \* detect argument 2 (Null when the file is missing)
    goldenAST,        \* detect argument 3 (NoAST when absent)
    migrationAST,     \* detect argument 4 (NoAST when absent)
    result,           \* the DetectionResult status returned by detect
    dpc,              \* "idle" | "input" | "detected" | "redetected"
    \* ---- scoring/engine.ts
    weightedResults,  \* ScoreInput.weightedResults (allWeightedResults in the driver)
    noiseInstances,   \* ScoreInput.noiseInstances
    scoreBreakdown,   \* the ScoreBreakdown returned by computeScore
    spc,              \* "idle" | "input" | "scored"
    \* ---- index.ts (program.action)
    calls,            \* the pattern.detect invocations made so far, in order
    rpc,              \* "idle" | "start" | "input" | "matched" | "detected" | "noise" |
                      \* "scored" | "reported"
    texts,            \* the golden and the candidate diff text of the run
    parsed,           \* the Change Record lists as parseDiff returned them
    fileResults,      \* the driver's FileResult list
    report,           \* the EvalReport built in step 6
    previous,         \* outcomes and score of the process's earlier run, if any
    \* ---- patterns/registry.ts
    registry,         \* the module-level patterns array
    reglog,           \* the registry operations performed so far, in order
    \* ---- scoring/noise-detector.ts (detectNoise called on its own)
    npc               \* "idle" | "input" | "scanned"

matchVars  == <<goldenDiffs, migrationDiffs, matchResult, mpc>>
parseVars  == <<patch, diffText, files, ppc>>
detectVars == <<patternId, goldenDiff, migrationDiff, goldenAST, migrationAST, result, dpc>>
scoreVars  == <<weightedResults, noiseInstances, scoreBreakdown, spc>>
runVars    == <<calls, rpc, texts, parsed, fileResults, report, previous, registry, reglog, npc>>
vars       == <<goldenDiffs, migrationDiffs, matchResult, mpc,
                patch, diffText, files, ppc,
                patternId, goldenDiff, migrationDiff, goldenAST, migrationAST, result, dpc,
                weightedResults, noiseInstances, scoreBreakdown, spc,
                calls, rpc, texts, parsed, fileResults, report, previous, registry, reglog, npc>>

\* null / undefined where an object is expected, and where a string is.
Null      == [ null |-> TRUE ]
Undefined == "undefined"
NoAST     == [ undefined |-> TRUE ]

----------------------------------------------------------------------------
(* Generic sequence helpers (Array.prototype.filter / some / slice).        *)

RECURSIVE SelectSeqIdx(_, _, _)
\* Indices i of s, in increasing order from i on, for which Test(s[i]) holds.
SelectSeqIdx(s, Test(_), i) ==
    IF i > Len(s) THEN <<>>
    ELSE (IF Test(s[i]) THEN <<i>> ELSE <<>>) \o SelectSeqIdx(s, Test, i + 1)

Range(s) == { s[i] : i \in DOMAIN s }

Some(s, Test(_)) == \E i \in DOMAIN s : Test(s[i])

StartsWith(s, p) == Len(s) >= Len(p) /\ SubSeq(s, 1, Len(p)) = p

Slice(s, n) == SubSeq(s, n + 1, Len(s))

\* All sequences over S of length at most n.
RECURSIVE SeqsUpTo(_, _)
SeqsUpTo(S, n) ==
    IF n = 0 THEN { <<>> }
    ELSE LET shorter == SeqsUpTo(S, n - 1)
         IN  shorter \cup { Append(q, x) : q \in { r \in shorter : Len(r) = n - 1 }, x \in S }

----------------------------------------------------------------------------
(* analysis/file-matcher.ts                                                *)

\* Bound: number of FileDiff records in each list given to matchFiles.
MaxFiles == 2

\* File names and directories are single atoms; "a", "b", "/" and "\\" are
\* the characters normalizePath inspects.
SnapNames   == { "g.snap" }

\* EXCLUDED_PATTERNS: each regex is anchored at the end of the path, so it
\* tests the last atom.
EXCLUDED_PATTERNS(p) ==
    /\ Len(p) > 0
    /\ \/ p[Len(p)] \in SnapNames
       \/ p[Len(p)] = "package-lock.json"
       \/ p[Len(p)] = "yarn.lock"
       \/ p[Len(p)] = "pnpm-lock.yaml"

ReplaceBackslashes(p) == [ i \in DOMAIN p |-> IF p[i] = "\\" THEN "/" ELSE p[i] ]

normalizePath(filePath) ==
    LET p == IF StartsWith(filePath, <<"a", "/">>) \/ StartsWith(filePath, <<"b", "/">>)
             THEN Slice(filePath, 2)
             ELSE filePath
    IN  ReplaceBackslashes(p)

isExcluded(filePath) == EXCLUDED_PATTERNS(normalizePath(filePath))

\* Map.prototype.set on a map held as a function.
MapSet(m, k, v) == [ x \in (DOMAIN m) \cup {k} |-> IF x = k THEN v ELSE m[x] ]

RECURSIVE BuildMigrationMap(_, _, _)
\* for (const diff of migrationFiltered) migrationMap.set(normalizePath(diff.filePath), diff)
BuildMigrationMap(migrationFiltered, i, m) ==
    IF i > Len(migrationFiltered) THEN m
    ELSE BuildMigrationMap(migrationFiltered, i + 1,
                           MapSet(m, normalizePath(migrationFiltered[i].filePath),
                                  migrationFiltered[i]))

Filter(s, Test(_)) ==
    LET idx == SelectSeqIdx(s, Test, 1) IN [ k \in DOMAIN idx |-> s[idx[k]] ]

RECURSIVE MatchLoop(_, _, _, _)
\* for (const goldenDiff of goldenFiltered) { ... }   acc = [matched, missedFiles, paths]
MatchLoop(goldenFiltered, i, migrationMap, acc) ==
    IF i > Len(goldenFiltered) THEN acc
    ELSE LET goldenDiffI    == goldenFiltered[i]
             normalizedPath == normalizePath(goldenDiffI.filePath)
         IN  IF normalizedPath \in DOMAIN migrationMap
             THEN MatchLoop(goldenFiltered, i + 1, migrationMap,
                     [ acc EXCEPT
                         !.matched = Append(@, [ golden    |-> goldenDiffI,
                                                 migration |-> migrationMap[normalizedPath] ]),
                         !.matchedMigrationPaths = @ \cup { normalizedPath } ])
             ELSE MatchLoop(goldenFiltered, i + 1, migrationMap,
                     [ acc EXCEPT !.missedFiles = Append(@, goldenDiffI) ])

matchFiles(gDiffs, mDiffs) ==
    LET NotExcluded(d)    == ~isExcluded(d.filePath)
        goldenFiltered    == Filter(gDiffs, NotExcluded)
        migrationFiltered == Filter(mDiffs, NotExcluded)
        migrationMap      == BuildMigrationMap(migrationFiltered, 1, <<>>)
        acc               == MatchLoop(goldenFiltered, 1, migrationMap,
                                       [ matched |-> <<>>, missedFiles |-> <<>>,
                                         matchedMigrationPaths |-> {} ])
        NotMatched(d)     == normalizePath(d.filePath) \notin acc.matchedMigrationPaths
    IN  [ matched     |-> acc.matched,
          missedFiles |-> acc.missedFiles,
          extraFiles  |-> Filter(migrationFiltered, NotMatched) ]

\* Paths the FileDiff records of a run may carry.
PathPool ==
    { <<"f.ts">>,
      <<"a", "/", "f.ts">>,
      <<"d", "/", "f.ts">>,
      <<"b", "/", "d", "\\", "f.ts">>,
      <<"g.snap">>,
      <<"d", "/", "yarn.lock">>,
      <<"package-lock.json">>,
      <<"a", "/", "pnpm-lock.yaml">> }

\* A list of FileDiff records as a diff of one tree yields it: no two records
\* carry the same path.  id stands for the identity of the JS object.
DiffLists(side) ==
    { [ i \in DOMAIN ps |-> [ id |-> <<side, i>>, filePath |-> ps[i] ] ] :
        ps \in { q \in SeqsUpTo(PathPool, MaxFiles) :
                    \A i, j \in DOMAIN q : i # j => q[i] # q[j] } }

NoMatchResult == [ matched |-> <<>>, missedFiles |-> <<>>, extraFiles |-> <<>> ]

MatchIdle ==
    /\ goldenDiffs = <<>> /\ migrationDiffs = <<>>
    /\ matchResult = NoMatchResult /\ mpc = "idle"

MatchInit ==
    /\ goldenDiffs \in DiffLists("golden")
    /\ migrationDiffs \in DiffLists("migration")
    /\ matchResult = NoMatchResult
    /\ mpc = "input"

MatchFiles ==
    /\ mpc = "input"
    /\ matchResult' = matchFiles(goldenDiffs, migrationDiffs)
    /\ mpc' = "matched"
    /\ UNCHANGED <<goldenDiffs, migrationDiffs>>
    /\ UNCHANGED parseVars
    /\ UNCHANGED detectVars
    /\ UNCHANGED << scoreVars, runVars >>

Count(s, Test(_)) == Cardinality({ i \in DOMAIN s : Test(s[i]) })

\* How often record d occurs in each collection of the MatchResult.
InMatchedGolden(d)    == LET T(m) == m.golden.id = d.id    IN Count(matchResult.matched, T)
InMatchedMigration(d) == LET T(m) == m.migration.id = d.id IN Count(matchResult.matched, T)
InMissed(d)           == LET T(x) == x.id = d.id IN Count(matchResult.missedFiles, T)
InExtra(d)            == LET T(x) == x.id = d.id IN Count(matchResult.extraFiles, T)

\* C1: after matchFiles, every golden record whose normalized path is not
\* excluded is the golden side of exactly one matched pair or is in
\* missedFiles (exactly one of the two); every migration record whose
\* normalized path is not excluded is the migration side of exactly one
\* matched pair or is in extraFiles (exactly one of the two); a record with
\* an excluded path is in none of the three collections.
C1_MatchPartition ==
    mpc = "matched" =>
        /\ \A i \in DOMAIN goldenDiffs :
              LET d == goldenDiffs[i] IN
              IF isExcluded(d.filePath)
              THEN InMatchedGolden(d) = 0 /\ InMissed(d) = 0 /\ InExtra(d) = 0
              ELSE InMatchedGolden(d) + InMissed(d) = 1
        /\ \A i \in DOMAIN migrationDiffs :
              LET d == migrationDiffs[i] IN
              IF isExcluded(d.filePath)
              THEN InMatchedMigration(d) = 0 /\ InExtra(d) = 0 /\ InMissed(d) = 0
              ELSE InMatchedMigration(d) + InExtra(d) = 1


----------------------------------------------------------------------------
(* input/diff-parser.ts                                                    *)
(*                                                                         *)
(* The diff text is held as the sequence of its lines (text.split('\n')).  *)
(* A line is a sequence of atoms: the characters + - @ , / \ a b, the      *)
(* space and the digits are atoms of their own; a file name, a marker such *)
(* as "diff --git " or a run of source text is one opaque atom.            *)

Digits == { "0", "1", "2", "3", "4", "5", "6", "7", "8", "9" }

DigitVal(c) ==
    CASE c = "0" -> 0 [] c = "1" -> 1 [] c = "2" -> 2 [] c = "3" -> 3 [] c = "4" -> 4
      [] c = "5" -> 5 [] c = "6" -> 6 [] c = "7" -> 7 [] c = "8" -> 8 [] c = "9" -> 9

RECURSIVE parseInt(_)
\* parseInt(digits, 10) of a non-empty run of digits.
parseInt(ds) ==
    IF Len(ds) = 0 THEN 0
    ELSE 10 * parseInt(SubSeq(ds, 1, Len(ds) - 1)) + DigitVal(ds[Len(ds)])

RECURSIVE DigitsEnd(_, _)
\* \d+ is greedy: the first position from i on that holds no digit.
DigitsEnd(l, i) ==
    IF i <= Len(l) /\ l[i] \in Digits THEN DigitsEnd(l, i + 1) ELSE i

BINARY_FILES     == "Binary files "
GIT_BINARY_PATCH == "GIT binary patch"
DIFF_GIT         == "diff --git "
RENAME_FROM      == "rename from "
RENAME_TO        == "rename to "
DEV_NULL         == "/dev/null"
MINUS_PREFIX     == <<"-", "-", "-", " ">>
PLUS_PREFIX      == <<"+", "+", "+", " ">>
NO_NEWLINE       == <<"\\", " No newline at end of file">>

\* line.match(/^@@ -(\d+)(?:,(\d+))? \+(\d+)(?:,(\d+))? @@/): the four groups
\* (an optional group that did not take part is Undefined), or Null.
hunkMatch(l) ==
    LET s1   == 5
        e1   == DigitsEnd(l, s1)
        has2 == e1 <= Len(l) /\ l[e1] = "," /\ DigitsEnd(l, e1 + 1) > e1 + 1
        e2   == IF has2 THEN DigitsEnd(l, e1 + 1) ELSE e1
        s3   == e2 + 2
        e3   == DigitsEnd(l, s3)
        has4 == e3 <= Len(l) /\ l[e3] = "," /\ DigitsEnd(l, e3 + 1) > e3 + 1
        e4   == IF has4 THEN DigitsEnd(l, e3 + 1) ELSE e3
    IN  IF /\ StartsWith(l, <<"@", "@", " ", "-">>)
           /\ e1 > s1
           /\ e2 + 1 <= Len(l) /\ l[e2] = " " /\ l[e2 + 1] = "+"
           /\ e3 > s3
           /\ e4 + 2 <= Len(l) /\ l[e4] = " " /\ l[e4 + 1] = "@" /\ l[e4 + 2] = "@"
        THEN [ g1 |-> SubSeq(l, s1, e1 - 1),
               g2 |-> IF has2 THEN SubSeq(l, e1 + 1, e2 - 1) ELSE Undefined,
               g3 |-> SubSeq(l, s3, e3 - 1),
               g4 |-> IF has4 THEN SubSeq(l, e3 + 1, e4 - 1) ELSE Undefined ]
        ELSE Null

stripABPrefix(path) ==
    IF StartsWith(path, <<"a", "/">>) \/ StartsWith(path, <<"b", "/">>)
    THEN Slice(path, 2)
    ELSE path

\* String.prototype.indexOf(' b/'): the first position of the three
\* characters, 0 when there is none (JS: -1).
IndexOfSpaceB(l) ==
    LET hits == { i \in 1..(Len(l) - 2) : l[i] = " " /\ l[i + 1] = "b" /\ l[i + 2] = "/" }
    IN  IF hits = {} THEN 0 ELSE CHOOSE i \in hits : \A j \in hits : i <= j

RECURSIVE SplitOnSpace(_, _)
\* String.prototype.split(' '); cur is the part being read.
SplitOnSpace(l, cur) ==
    IF Len(l) = 0 THEN <<cur>>
    ELSE IF Head(l) = " " THEN <<cur>> \o SplitOnSpace(Tail(l), <<>>)
         ELSE SplitOnSpace(Tail(l), Append(cur, Head(l)))

parseGitDiffPaths(gitDiffLine) ==
    LET withoutPrefix == Tail(gitDiffLine)
        bIndex        == IndexOfSpaceB(withoutPrefix)
        parts         == SplitOnSpace(withoutPrefix, <<>>)
    IN  IF bIndex = 0
        THEN [ oldPath |-> stripABPrefix(parts[1]),
               newPath |-> stripABPrefix(parts[Len(parts)]) ]
        ELSE [ oldPath |-> stripABPrefix(SubSeq(withoutPrefix, 1, bIndex - 1)),
               newPath |-> stripABPrefix(Slice(withoutPrefix, bIndex)) ]

IsGitDiffLine(l) == Len(l) > 0 /\ l[1] = DIFF_GIT

RECURSIVE SplitLoop(_, _, _, _)
\* splitIntoFileChunks: the loop over the lines.
SplitLoop(lines, i, chunks, currentChunk) ==
    IF i > Len(lines)
    THEN IF Len(currentChunk) > 0 THEN Append(chunks, currentChunk) ELSE chunks
    ELSE IF IsGitDiffLine(lines[i]) /\ Len(currentChunk) > 0
         THEN SplitLoop(lines, i + 1, Append(chunks, currentChunk), <<lines[i]>>)
         ELSE SplitLoop(lines, i + 1, chunks, Append(currentChunk, lines[i]))

splitIntoFileChunks(text) == SplitLoop(text, 1, <<>>, <<>>)

\* Array.prototype.find with the tests parseFileChunk uses: the first line
\* that starts with the given prefix, or Undefined.
FindFirstAtom(lines, atom) ==
    LET hits == { i \in DOMAIN lines : Len(lines[i]) > 0 /\ lines[i][1] = atom }
    IN  IF hits = {} THEN Undefined ELSE lines[CHOOSE i \in hits : \A j \in hits : i <= j]

FindPrefix(lines, prefix) ==
    LET hits == { i \in DOMAIN lines : StartsWith(lines[i], prefix) }
    IN  IF hits = {} THEN Undefined ELSE lines[CHOOSE i \in hits : \A j \in hits : i <= j]

HunkBodyLine(line) ==
    \/ StartsWith(line, <<"+">>) /\ ~StartsWith(line, <<"+", "+", "+">>)
    \/ StartsWith(line, <<"-">>) /\ ~StartsWith(line, <<"-", "-", "-">>)
    \/ StartsWith(line, <<" ">>)
    \/ line = NO_NEWLINE

RECURSIVE HunkLoop(_, _, _, _)
\* parseFileChunk, "Parse hunks": the loop over the chunk's lines, then the
\* push of the last hunk.  currentHunk is Null before the first header.
HunkLoop(lines, i, hunks, currentHunk) ==
    IF i > Len(lines)
    THEN IF currentHunk # Null THEN Append(hunks, currentHunk) ELSE hunks
    ELSE LET line == lines[i]
             m    == hunkMatch(line)
         IN  IF m # Null
             THEN HunkLoop(lines, i + 1,
                           IF currentHunk # Null THEN Append(hunks, currentHunk) ELSE hunks,
                           [ oldStart |-> parseInt(m.g1),
                             oldCount |-> IF m.g2 # Undefined THEN parseInt(m.g2) ELSE 1,
                             newStart |-> parseInt(m.g3),
                             newCount |-> IF m.g4 # Undefined THEN parseInt(m.g4) ELSE 1,
                             lines    |-> <<line>> ])
             ELSE IF currentHunk # Null /\ HunkBodyLine(line)
                  THEN HunkLoop(lines, i + 1, hunks,
                                [ currentHunk EXCEPT !.lines = Append(@, line) ])
                  ELSE HunkLoop(lines, i + 1, hunks, currentHunk)

\* C4 mutant: an added line does not advance the new-file counter.
NumberLine_NoStep(acc, line) ==
    IF StartsWith(line, <<"@", "@">>) THEN acc
    ELSE IF line = NO_NEWLINE THEN acc
    ELSE IF StartsWith(line, <<"+">>)
         THEN [ acc EXCEPT
                  !.addedLines = Append(@, [ lineNumber |-> acc.newLineNum,
                                             content    |-> Slice(line, 1) ]) ]
    ELSE IF StartsWith(line, <<"-">>)
         THEN [ acc EXCEPT
                  !.removedLines = Append(@, [ lineNumber |-> acc.oldLineNum,
                                               content    |-> Slice(line, 1) ]),
                  !.oldLineNum = @ + 1 ]
    ELSE IF StartsWith(line, <<" ">>)
         THEN [ acc EXCEPT !.oldLineNum = @ + 1, !.newLineNum = @ + 1 ]
    ELSE acc

\* parseFileChunk, "Extract added/removed lines": the body of the loop over
\* one hunk's lines.  acc = [addedLines, removedLines, oldLineNum, newLineNum].
NumberLine(acc, line) ==
    IF StartsWith(line, <<"@", "@">>) THEN acc
    ELSE IF line = NO_NEWLINE THEN acc
    ELSE IF StartsWith(line, <<"+">>)
         THEN [ acc EXCEPT
                  !.addedLines = Append(@, [ lineNumber |-> acc.newLineNum,
                                             content    |-> Slice(line, 1) ]),
                  !.newLineNum = @ + 1 ]
    ELSE IF StartsWith(line, <<"-">>)
         THEN [ acc EXCEPT
                  !.removedLines = Append(@, [ lineNumber |-> acc.oldLineNum,
                                               content    |-> Slice(line, 1) ]),
                  !.oldLineNum = @ + 1 ]
    ELSE IF StartsWith(line, <<" ">>)
         THEN [ acc EXCEPT !.oldLineNum = @ + 1, !.newLineNum = @ + 1 ]
    ELSE acc

RECURSIVE NumberLoop(_, _, _)
\* for (const line of hunk.lines)
NumberLoop(hlines, i, acc) ==
    IF i > Len(hlines) THEN acc
    ELSE NumberLoop(hlines, i + 1, NumberLine(acc, hlines[i]))

RECURSIVE ExtractLoop(_, _, _)
\* for (const hunk of hunks): the counters restart at each hunk's header.
ExtractLoop(hunks, k, acc) ==
    IF k > Len(hunks) THEN acc
    ELSE ExtractLoop(hunks, k + 1,
            NumberLoop(hunks[k].lines, 1,
                       [ acc EXCEPT !.oldLineNum = hunks[k].oldStart,
                                    !.newLineNum = hunks[k].newStart ]))

IsBinaryLine(l) ==
    \/ Len(l) > 0 /\ l[1] = BINARY_FILES
    \/ \E i \in DOMAIN l : l[i] = GIT_BINARY_PATCH

\* parseFileChunk: the FileDiff of one chunk, or Null.
parseFileChunk(lines) ==
    LET gitDiffLine == FindFirstAtom(lines, DIFF_GIT) IN
    IF gitDiffLine = Undefined THEN Null
    ELSE IF \E i \in DOMAIN lines : IsBinaryLine(lines[i])
    THEN LET paths == parseGitDiffPaths(gitDiffLine) IN
         [ filePath     |-> paths.newPath,
           oldPath      |-> IF paths.oldPath # paths.newPath THEN paths.oldPath ELSE Undefined,
           addedLines   |-> <<>>,
           removedLines |-> <<>>,
           hunks        |-> <<>>,
           isBinary     |-> TRUE,
           isRenamed    |-> paths.oldPath # paths.newPath ]
    ELSE
    LET renameLine   == FindFirstAtom(lines, RENAME_FROM)
        renameToLine == FindFirstAtom(lines, RENAME_TO)
        isRenamed    == renameLine # Undefined /\ renameToLine # Undefined
        minusLine    == FindPrefix(lines, MINUS_PREFIX)
        plusLine     == FindPrefix(lines, PLUS_PREFIX)
        plusOk       == plusLine # Undefined /\ plusLine # PLUS_PREFIX \o <<DEV_NULL>>
        minusOk      == minusLine # Undefined /\ minusLine # MINUS_PREFIX \o <<DEV_NULL>>
        filePath     == IF isRenamed THEN Tail(renameToLine)
                        ELSE IF plusOk THEN stripABPrefix(Slice(plusLine, 4))
                        ELSE IF minusOk THEN stripABPrefix(Slice(minusLine, 4))
                        ELSE parseGitDiffPaths(gitDiffLine).newPath
        oldPath      == IF isRenamed THEN Tail(renameLine)
                        ELSE IF minusOk /\ stripABPrefix(Slice(minusLine, 4)) # filePath
                             THEN stripABPrefix(Slice(minusLine, 4))
                             ELSE Undefined
        hunks        == HunkLoop(lines, 1, <<>>, Null)
        acc          == ExtractLoop(hunks, 1,
                                    [ addedLines |-> <<>>, removedLines |-> <<>>,
                                      oldLineNum |-> 0, newLineNum |-> 0 ])
    IN  [ filePath     |-> filePath,
          oldPath      |-> oldPath,
          addedLines   |-> acc.addedLines,
          removedLines |-> acc.removedLines,
          hunks        |-> hunks,
          isBinary     |-> FALSE,
          isRenamed    |-> isRenamed ]

\* !diffText.trim(): the text holds nothing but white space.
IsBlankText(text) ==
    \A i \in DOMAIN text : \A j \in DOMAIN text[i] : text[i][j] = " "

\* C5 mutant: the result of every chunk is pushed, parsed or not.
PushFileDiff_Always(acc, fileDiff) == Append(acc, fileDiff)

\* if (fileDiff) files.push(fileDiff)
PushFileDiff(acc, fileDiff) ==
    IF fileDiff # Null THEN Append(acc, fileDiff) ELSE acc

RECURSIVE ParseChunks(_, _, _)
\* parseDiff: the loop over the chunks.
ParseChunks(fileChunks, i, acc) ==
    IF i > Len(fileChunks) THEN acc
    ELSE ParseChunks(fileChunks, i + 1,
                     PushFileDiff(acc, parseFileChunk(fileChunks[i])))

parseDiff(text) ==
    IF IsBlankText(text) THEN <<>>
    ELSE ParseChunks(splitIntoFileChunks(text), 1, <<>>)

(* The diffs handed to parseDiff: what `git diff` writes for a patch.  A    *)
(* patch is one file's change (its hunks, each a run of body lines), with  *)
(* the header shape git gives it, alone or embedded between a preamble and *)
(* a second file's chunk.                                                  *)

MaxLines == 2      \* body lines of the first file's hunks, all hunks together
HunkGap  == 2      \* unchanged lines between two hunks of a file

BodyLinePool ==
    { [ kind |-> "add",  text |-> <<"+", "x">> ],
      [ kind |-> "rem",  text |-> <<"-", "y">> ],
      [ kind |-> "ctx",  text |-> <<" ", "z">> ],
      [ kind |-> "add",  text |-> <<"+", "+", "+", "i;">> ],
      [ kind |-> "rem",  text |-> <<"-", "-", "-", "i;">> ],
      [ kind |-> "nonl", text |-> NO_NEWLINE ] }

\* A body: its lines in order; `first` marks the line that opens a hunk.
Bodies ==
    { b \in SeqsUpTo(BodyLinePool \X BOOLEAN, MaxLines) :
        /\ Len(b) > 0 => b[1][2]
        /\ \A i \in DOMAIN b : b[i][2] => b[i][1].kind # "nonl" }

RECURSIVE GroupHunks(_, _, _)
\* The hunks of a body, each the sequence of its body lines.
GroupHunks(b, i, hs) ==
    IF i > Len(b) THEN hs
    ELSE IF b[i][2]
         THEN GroupHunks(b, i + 1, Append(hs, <<b[i][1]>>))
         ELSE GroupHunks(b, i + 1, [ hs EXCEPT ![Len(hs)] = Append(@, b[i][1]) ])

KindCount(h, kinds) == Cardinality({ i \in DOMAIN h : h[i].kind \in kinds })
OldCountOf(h) == KindCount(h, { "rem", "ctx" })
NewCountOf(h) == KindCount(h, { "add", "ctx" })

DigitChar(n) ==
    CASE n = 0 -> "0" [] n = 1 -> "1" [] n = 2 -> "2" [] n = 3 -> "3" [] n = 4 -> "4"
      [] n = 5 -> "5" [] n = 6 -> "6" [] n = 7 -> "7" [] n = 8 -> "8" [] n = 9 -> "9"

RECURSIVE ToDigits(_)
ToDigits(n) ==
    IF n < 10 THEN <<DigitChar(n)>> ELSE Append(ToDigits(n \div 10), DigitChar(n % 10))

\* A range of a hunk header: "start,count"; ",1" may be left out.
RangeText(start, count, omitOne) ==
    IF count = 1 /\ omitOne THEN ToDigits(start)
    ELSE ToDigits(start) \o <<",">> \o ToDigits(count)

HunkHeader(oldStart, oldCount, newStart, newCount, style, damage) ==
    LET omitOne == style = "short"
        old     == IF damage = "nocount" THEN ToDigits(oldStart) \o <<",">>
                   ELSE RangeText(oldStart, oldCount, omitOne)
        new     == RangeText(newStart, newCount, omitOne)
        close   == IF damage = "noclose" THEN <<>> ELSE <<" ", "@", "@">>
        section == IF style = "short" THEN <<" ", "render()">> ELSE <<>>
    IN  <<"@", "@", " ", "-">> \o old \o <<" ", "+">> \o new \o close \o section

HunkText(h) == [ i \in DOMAIN h |-> h[i].text ]

FirstStart(style) == IF style = "short" THEN 1 ELSE 10

RECURSIVE OldStartOf(_, _, _)
OldStartOf(hs, k, style) ==
    IF k = 1 THEN FirstStart(style)
    ELSE OldStartOf(hs, k - 1, style) + OldCountOf(hs[k - 1]) + HunkGap

RECURSIVE NewStartOf(_, _, _)
NewStartOf(hs, k, style) ==
    IF k = 1 THEN FirstStart(style)
    ELSE NewStartOf(hs, k - 1, style) + NewCountOf(hs[k - 1]) + HunkGap

\* The start a header declares: an empty range names the line before it.
HeaderOldStart(hs, k, style) ==
    IF OldCountOf(hs[k]) = 0 THEN OldStartOf(hs, k, style) - 1 ELSE OldStartOf(hs, k, style)

HeaderNewStart(hs, k, style) ==
    IF NewCountOf(hs[k]) = 0 THEN NewStartOf(hs, k, style) - 1 ELSE NewStartOf(hs, k, style)

WriteHeader(hs, k, style, damage) ==
    HunkHeader(HeaderOldStart(hs, k, style), OldCountOf(hs[k]),
               HeaderNewStart(hs, k, style), NewCountOf(hs[k]), style,
               IF damage[1] = k THEN damage[2] ELSE "none")

RECURSIVE WriteHunks(_, _, _, _)
\* The header and the body lines of hunks k, k+1, ...; hunk damage[1] gets
\* a header with the defect damage[2].
WriteHunks(hs, k, style, damage) ==
    IF k > Len(hs) THEN <<>>
    ELSE <<WriteHeader(hs, k, style, damage)>> \o HunkText(hs[k]) \o WriteHunks(hs, k + 1, style, damage)

Path1  == <<"src", "/", "f.ts">>
Path1R == <<"src", "/", "g.ts">>
Path2  == <<"lib", "/", "h.ts">>

GitLine(old, new) == <<DIFF_GIT, "a", "/">> \o old \o <<" ", "b", "/">> \o new
MinusLine(path)   == MINUS_PREFIX \o <<"a", "/">> \o path
PlusLine(path)    == PLUS_PREFIX \o <<"b", "/">> \o path

FileHeader(shape, hasHunks) ==
    CASE shape = "modify" ->
           << GitLine(Path1, Path1), <<"index 1a2b..3c4d 100644">>,
              MinusLine(Path1), PlusLine(Path1) >>
      [] shape = "create" ->
           << GitLine(Path1, Path1), <<"new file mode 100644">>,
              MINUS_PREFIX \o <<DEV_NULL>>, PlusLine(Path1) >>
      [] shape = "delete" ->
           << GitLine(Path1, Path1), <<"deleted file mode 100644">>,
              MinusLine(Path1), PLUS_PREFIX \o <<DEV_NULL>> >>
      [] shape = "rename" ->
           << GitLine(Path1, Path1R), <<"similarity index 90%">>,
              <<RENAME_FROM>> \o Path1, <<RENAME_TO>> \o Path1R >>
           \o (IF hasHunks THEN << MinusLine(Path1), PlusLine(Path1R) >> ELSE <<>>)
      [] shape = "binary" ->
           << GitLine(Path1, Path1), <<"index 1a2b..3c4d 100644">>,
              <<BINARY_FILES, "a", "/">> \o Path1 \o <<" and ", "b", "/">> \o Path1
                 \o <<" differ">> >>
      [] shape = "mode" ->
           << GitLine(Path1, Path1), <<"old mode 100644">>, <<"new mode 100755">> >>
      [] shape = "noprefix" ->
           << <<DIFF_GIT>> \o Path1 \o <<" ">> \o Path1,
              <<"old mode 100644">>, <<"new mode 100755">> >>

Preamble == << <<"commit 9f8e7d">>, <<"    migrate to PatternFly 6">>, <<>> >>

SecondBody == << [ kind |-> "rem", text |-> <<"-", "y">> ],
                 [ kind |-> "add", text |-> <<"+", "x">> ] >>

SecondChunk ==
    << GitLine(Path2, Path2), <<"index 5e6f..7a8b 100644">>,
       MinusLine(Path2), PlusLine(Path2) >>
    \o WriteHunks(<<SecondBody>>, 1, "short", <<0, "none">>)

\* The text git writes for a patch, split at the line ends; the text ends
\* with a line end, so the last element is the empty line.
WriteDiff(p) ==
    IF p.shape = "empty" THEN << <<>> >>
    ELSE IF p.shape = "blank" THEN << <<" ">>, <<>> >>
    ELSE (IF p.embedded THEN Preamble ELSE <<>>)
         \o FileHeader(p.shape, Len(p.body) > 0)
         \o WriteHunks(GroupHunks(p.body, 1, <<>>), 1, p.style, p.damage)
         \o (IF p.embedded THEN SecondChunk ELSE <<>>)
         \o << <<>> >>

AllOf(b, kinds) ==
    \A i \in DOMAIN b : b[i][1].kind \in kinds \cup { "nonl" }

ShapesOf(b) ==
    IF Len(b) = 0 THEN { "rename", "binary", "mode", "noprefix" }
    ELSE { "modify", "rename" }
         \cup (IF AllOf(b, { "add" }) THEN { "create" } ELSE {})
         \cup (IF AllOf(b, { "rem" }) THEN { "delete" } ELSE {})

NumHunks(b) == Cardinality({ i \in DOMAIN b : b[i][2] })

\* At most one hunk header of a patch is damaged: its closing "@@" or the
\* digits of its old count are missing.
DamagesOf(b, style) ==
    { <<0, "none">> }
    \cup ((1..NumHunks(b)) \X { IF style = "short" THEN "noclose" ELSE "nocount" })

NoPatch == [ shape |-> "none" ]

BlankPatch(sh) ==
    [ shape |-> sh, body |-> <<>>, style |-> "short", damage |-> <<0, "none">>,
      embedded |-> FALSE ]

ParseInit ==
    /\ \/ \E sh \in { "empty", "blank" } : patch = BlankPatch(sh)
       \/ \E b \in Bodies : \E sh \in ShapesOf(b) :
            \E st \in (IF Len(b) = 0 THEN { "short" } ELSE { "short", "full" }) :
              \E d \in DamagesOf(b, st) : \E emb \in BOOLEAN :
                patch = [ shape |-> sh, body |-> b, style |-> st, damage |-> d,
                          embedded |-> emb ]
    /\ diffText = WriteDiff(patch)
    /\ files = <<>>
    /\ ppc = "input"

\* parseDiff(diffText)
ParseDiff ==
    /\ ppc = "input"
    /\ files' = parseDiff(diffText)
    /\ ppc' = "parsed"
    /\ UNCHANGED << patch, diffText >>
    /\ UNCHANGED << matchVars, detectVars, scoreVars, runVars >>

(* Claims about the diff parser *)

Written(p)   == p.shape \notin { "empty", "blank" }
Intact(p)    == Written(p) /\ p.damage[1] = 0
HunksOf(p)   == GroupHunks(p.body, 1, <<>>)
FirstPath(p) == IF p.shape = "rename" THEN Path1R ELSE Path1

\* The headers of the patch's hunks that were written undamaged, in order.
IntactHeaders(p) ==
    LET hs   == HunksOf(p)
        keep == SelectSeqIdx([ k \in DOMAIN hs |-> k ], LAMBDA k : k # p.damage[1], 1)
    IN  [ i \in DOMAIN keep |-> WriteHeader(hs, keep[i], p.style, p.damage) ]

\* The numbering rule read off the written hunk body: what one body line
\* does to the entries and the two counters.
ExpectedLine(acc, t) ==
    IF t = NO_NEWLINE THEN acc
    ELSE IF t[1] = "+"
         THEN [ acc EXCEPT !.added = Append(@, [ lineNumber |-> acc.new,
                                                 content |-> Tail(t) ]),
                           !.new = @ + 1 ]
    ELSE IF t[1] = "-"
         THEN [ acc EXCEPT !.removed = Append(@, [ lineNumber |-> acc.old,
                                                   content |-> Tail(t) ]),
                           !.old = @ + 1 ]
    ELSE [ acc EXCEPT !.old = @ + 1, !.new = @ + 1 ]

RECURSIVE ExpectedHunk(_, _, _)
ExpectedHunk(h, i, acc) ==
    IF i > Len(h) THEN acc ELSE ExpectedHunk(h, i + 1, ExpectedLine(acc, h[i].text))

RECURSIVE ExpectedFile(_, _, _, _)
ExpectedFile(hs, k, style, acc) ==
    IF k > Len(hs) THEN acc
    ELSE ExpectedFile(hs, k + 1, style,
            ExpectedHunk(hs[k], 1, [ acc EXCEPT !.old = HeaderOldStart(hs, k, style),
                                                !.new = HeaderNewStart(hs, k, style) ]))

ExpectedEntries(p) ==
    ExpectedFile(HunksOf(p), 1, p.style,
                 [ added |-> <<>>, removed |-> <<>>, old |-> 0, new |-> 0 ])

\* C2: for every hunk of a textual file chunk, with the counters started at
\* the header's oldStart and newStart, each body line beginning with '+'
\* yields one added-line entry at the new-file counter (which then steps),
\* each line beginning with '-' one removed-line entry at the old-file
\* counter (which then steps), a context line steps both and yields nothing,
\* and the no-newline marker yields nothing and steps neither.
C2_HunkCounters ==
    (ppc = "parsed" /\ Intact(patch)) =>
        /\ files[1].addedLines   = ExpectedEntries(patch).added
        /\ files[1].removedLines = ExpectedEntries(patch).removed

StartingWith(hlines, c) ==
    Cardinality({ i \in 2..Len(hlines) : hlines[i] # NO_NEWLINE /\ hlines[i][1] = c })

RECURSIVE SumOver(_, _, _)
SumOver(hunks, k, c) ==
    IF k > Len(hunks) THEN 0
    ELSE StartingWith(hunks[k].lines, c) + SumOver(hunks, k + 1, c)

\* C3: in every record parseDiff returns for a well-formed diff, each hunk's
\* removed entries plus context lines equal the old count its header
\* declares, and its added entries plus context lines the declared new
\* count, a count left out of the header being 1.
C3_HeaderCounts ==
    (ppc = "parsed" /\ Intact(patch)) =>
        LET f  == files[1]
            hs == HunksOf(patch)
        IN  /\ Len(f.hunks) = Len(hs)
            /\ SumOver(f.hunks, 1, "-") = Len(f.removedLines)
            /\ SumOver(f.hunks, 1, "+") = Len(f.addedLines)
            /\ \A k \in DOMAIN f.hunks :
                 /\ f.hunks[k].oldCount = OldCountOf(hs[k])
                 /\ f.hunks[k].newCount = NewCountOf(hs[k])
                 /\ StartingWith(f.hunks[k].lines, "-") + StartingWith(f.hunks[k].lines, " ")
                      = f.hunks[k].oldCount
                 /\ StartingWith(f.hunks[k].lines, "+") + StartingWith(f.hunks[k].lines, " ")
                      = f.hunks[k].newCount

StrictlyIncreasing(entries) ==
    \A i, j \in DOMAIN entries : i < j => entries[i].lineNumber < entries[j].lineNumber

\* C4: in every record parseDiff returns, the line numbers of addedLines
\* are strictly increasing, so are those of removedLines, and the hunks are
\* listed in the order their headers occur in the file's chunk.
C4_Ordered ==
    ppc = "parsed" =>
        /\ \A i \in DOMAIN files :
             /\ StrictlyIncreasing(files[i].addedLines)
             /\ StrictlyIncreasing(files[i].removedLines)
        /\ Written(patch) =>
             [ k \in DOMAIN files[1].hunks |-> files[1].hunks[k].lines[1] ]
                = IntactHeaders(patch)

C4_Witness ==
    /\ ppc = "parsed" /\ Written(patch)
    /\ Len(files[1].hunks) >= 2
    /\ Len(files[1].addedLines) + Len(files[1].removedLines) >= 2

SecondRecord ==
    [ filePath     |-> Path2,
      oldPath      |-> Undefined,
      addedLines   |-> << [ lineNumber |-> 1, content |-> <<"x">> ] >>,
      removedLines |-> << [ lineNumber |-> 1, content |-> <<"y">> ] >>,
      hunks        |-> << [ oldStart |-> 1, oldCount |-> 1, newStart |-> 1, newCount |-> 1,
                            lines |-> << <<"@", "@", " ", "-", "1", " ", "+", "1", " ",
                                           "@", "@", " ", "render()">>,
                                         <<"-", "y">>, <<"+", "x">> >> ] >>,
      isBinary     |-> FALSE,
      isRenamed    |-> FALSE ]

\* C5 (as stated): a file chunk with a malformed hunk header, or a chunk of
\* an unrecognized shape, leaves no record for that file in the result of
\* parseDiff, and the records of the other chunks are returned unchanged.
C5_MalformedDropped ==
    (ppc = "parsed" /\ Written(patch)) =>
        /\ patch.damage[1] # 0 =>
             \A i \in DOMAIN files : files[i].filePath # FirstPath(patch)
        /\ \A i \in DOMAIN files : files[i].filePath \in { FirstPath(patch), Path2 }
        /\ patch.embedded => \E i \in DOMAIN files : files[i] = SecondRecord

\* C5 (amended): parseDiff returns one record for every chunk that holds a
\* "diff --git" line and none for a chunk without one (text before the
\* first file); a malformed hunk header does not drop the file: its record
\* is returned with exactly the well-formed headers as hunks; the records
\* of the other chunks are returned unchanged, and blank text gives no
\* record.
C5_MalformedKept ==
    ppc = "parsed" =>
        IF Written(patch)
        THEN /\ Len(files) = (IF patch.embedded THEN 2 ELSE 1)
             /\ files[1].filePath = FirstPath(patch)
             /\ [ k \in DOMAIN files[1].hunks |-> files[1].hunks[k].lines[1] ]
                  = IntactHeaders(patch)
             /\ patch.embedded => files[2] = SecondRecord
        ELSE files = <<>>

C5_Witness ==
    /\ ppc = "parsed" /\ Written(patch)
    /\ patch.damage[1] # 0 /\ patch.embedded
    /\ Len(files) = 2

ParseIdle == patch = NoPatch /\ diffText = <<>> /\ files = <<>> /\ ppc = "idle"

----------------------------------------------------------------------------
(* patterns/*.ts                                                           *)
(*                                                                         *)
(* A detector reads a line only through its regular expressions (and       *)
(* String.includes tests), so the content of a changed line is held as the *)
(* set of the detector's expressions that match it, each under the name    *)
(* the source gives it.  A DetectionResult is held as its status.          *)

\* lines.some(l => RE1.test(l.content) || RE2.test(l.content) || ...)
SomeLine(lines, res) ==
    \E i \in DOMAIN lines : res \cap lines[i].content # {}

\* lines.some(l => RE1.test(l.content) && RE2.test(l.content) && ...)
SomeLineAll(lines, res) ==
    \E i \in DOMAIN lines : res \subseteq lines[i].content

(* theme-dark-removal *)

themeDarkRemoval_applicable(g) == SomeLine(g.removedLines, { "THEME_DARK_RE" })

\* detect with the two early returns swapped: the null check first.
themeDarkRemoval_detect_NullFirst(g, m) ==
    IF m = Null THEN "FILE_MISSING"
    ELSE IF ~themeDarkRemoval_applicable(g) THEN "NOT_APPLICABLE"
    ELSE IF SomeLine(m.removedLines, { "THEME_DARK_RE" })
         THEN IF SomeLine(m.addedLines, { "THEME_DARK_RE" }) THEN "INCORRECT" ELSE "CORRECT"
    ELSE "MISSING"

themeDarkRemoval_detect(g, m) ==
    IF ~themeDarkRemoval_applicable(g) THEN "NOT_APPLICABLE"
    ELSE IF m = Null THEN "FILE_MISSING"
    ELSE IF SomeLine(m.removedLines, { "THEME_DARK_RE" })
         THEN IF SomeLine(m.addedLines, { "THEME_DARK_RE" }) THEN "INCORRECT" ELSE "CORRECT"
    ELSE "MISSING"

(* css-class-prefix *)

cssClassPrefix_applicable(g) ==
    SomeLine(g.removedLines, { "PF5_CLASS_RE" }) \/ SomeLine(g.addedLines, { "PF6_CLASS_RE" })

\* detect with an applicability test that also looks at the candidate.
cssClassPrefix_detect_CandidateApplies(g, m) ==
    IF ~cssClassPrefix_applicable(g) THEN "NOT_APPLICABLE"
    ELSE IF m = Null THEN "FILE_MISSING"
    ELSE IF ~cssClassPrefix_applicable(m) THEN "NOT_APPLICABLE"
    ELSE IF SomeLine(m.addedLines, { "PF6_CLASS_RE" }) THEN "CORRECT"
    ELSE "INCORRECT"

cssClassPrefix_detect(g, m) ==
    IF ~cssClassPrefix_applicable(g) THEN "NOT_APPLICABLE"
    ELSE IF m = Null THEN "FILE_MISSING"
    ELSE LET migrationRemovesPF5 == SomeLine(m.removedLines, { "PF5_CLASS_RE" })
             migrationAddsPF6    == SomeLine(m.addedLines, { "PF6_CLASS_RE" })
         IN  IF migrationRemovesPF5 /\ migrationAddsPF6 THEN "CORRECT"
             ELSE IF migrationAddsPF6 /\ ~migrationRemovesPF5 THEN "CORRECT"
             ELSE IF ~migrationRemovesPF5 /\ ~migrationAddsPF6 THEN "MISSING"
             ELSE "INCORRECT"

(* toolbar-gap *)

hasOldSpacerPatterns(lines) == SomeLine(lines, { "SPACER_PROP_RE", "SPACE_ITEMS_PROP_RE" })
hasNewGapPatterns(lines) ==
    SomeLine(lines, { "GAP_PROP_RE", "COLUMN_GAP_PROP_RE", "ROW_GAP_PROP_RE" })

toolbarGap_applicable(g) ==
    hasOldSpacerPatterns(g.removedLines) \/ hasNewGapPatterns(g.addedLines)

toolbarGap_detect(g, m) ==
    IF ~toolbarGap_applicable(g) THEN "NOT_APPLICABLE"
    ELSE IF m = Null THEN "FILE_MISSING"
    ELSE LET goldenAddsGaps    == hasNewGapPatterns(g.addedLines)
             migRemovesSpacers == hasOldSpacerPatterns(m.removedLines)
             migAddsGaps       == hasNewGapPatterns(m.addedLines)
             migAddsSpacers    == hasOldSpacerPatterns(m.addedLines)
         IN  IF ~migRemovesSpacers /\ ~migAddsGaps THEN "MISSING"
             ELSE IF (goldenAddsGaps /\ migRemovesSpacers /\ ~migAddsGaps) \/ migAddsSpacers
                  THEN "INCORRECT"
             ELSE "CORRECT"

(* utility-class-rename *)

utilityClassRename_applicable(g) ==
    SomeLine(g.removedLines, { "PF5_UTILITY_RE" }) \/ SomeLine(g.addedLines, { "PF6_UTILITY_RE" })

utilityClassRename_detect(g, m) ==
    IF ~utilityClassRename_applicable(g) THEN "NOT_APPLICABLE"
    ELSE IF m = Null THEN "FILE_MISSING"
    ELSE LET migrationRemovesPF5 == SomeLine(m.removedLines, { "PF5_UTILITY_RE" })
             migrationAddsPF6    == SomeLine(m.addedLines, { "PF6_UTILITY_RE" })
         IN  IF migrationRemovesPF5 /\ migrationAddsPF6 THEN "CORRECT"
             ELSE IF migrationAddsPF6 /\ ~migrationRemovesPF5 THEN "CORRECT"
             ELSE IF ~migrationRemovesPF5 /\ ~migrationAddsPF6 THEN "MISSING"
             ELSE "INCORRECT"

(* ouia-component-id *)

ouiaComponentId_applicable(g) == SomeLine(g.removedLines, { "DATA_OUIA_RE" })

ouiaComponentId_detect(g, m) ==
    IF ~ouiaComponentId_applicable(g) THEN "NOT_APPLICABLE"
    ELSE IF m = Null THEN "FILE_MISSING"
    ELSE LET migrationRemovesDataOuia == SomeLine(m.removedLines, { "DATA_OUIA_RE" })
             migrationAddsOuiaId      == SomeLine(m.addedLines, { "OUIA_ID_RE" })
         IN  IF migrationRemovesDataOuia /\ migrationAddsOuiaId THEN "CORRECT"
             ELSE IF migrationRemovesDataOuia /\ ~migrationAddsOuiaId THEN "INCORRECT"
             ELSE "MISSING"

(* space-items-removal *)

spaceItemsRemoval_applicable(g) == SomeLine(g.removedLines, { "SPACE_ITEMS_RE" })

\* detect reporting UNNECESSARY for a candidate that drops spaceItems where
\* the golden did not.
spaceItemsRemoval_detect_Unnecessary(g, m) ==
    IF ~spaceItemsRemoval_applicable(g)
    THEN IF m # Null /\ SomeLine(m.removedLines, { "SPACE_ITEMS_RE" })
         THEN "UNNECESSARY" ELSE "NOT_APPLICABLE"
    ELSE IF m = Null THEN "FILE_MISSING"
    ELSE IF SomeLine(m.removedLines, { "SPACE_ITEMS_RE" })
         THEN IF SomeLine(m.addedLines, { "SPACE_ITEMS_RE" }) THEN "INCORRECT" ELSE "CORRECT"
    ELSE "MISSING"

spaceItemsRemoval_detect(g, m) ==
    IF ~spaceItemsRemoval_applicable(g) THEN "NOT_APPLICABLE"
    ELSE IF m = Null THEN "FILE_MISSING"
    ELSE IF SomeLine(m.removedLines, { "SPACE_ITEMS_RE" })
         THEN IF SomeLine(m.addedLines, { "SPACE_ITEMS_RE" }) THEN "INCORRECT" ELSE "CORRECT"
    ELSE "MISSING"

(* css-logical-properties *)

cssLogicalProperties_applicable(g) ==
    SomeLine(g.removedLines, { "PHYSICAL_PROPS" }) \/ SomeLine(g.addedLines, { "LOGICAL_PROPS" })

cssLogicalProperties_detect(g, m) ==
    IF ~cssLogicalProperties_applicable(g) THEN "NOT_APPLICABLE"
    ELSE IF m = Null THEN "FILE_MISSING"
    ELSE LET migrationRemovesPhysical == SomeLine(m.removedLines, { "PHYSICAL_PROPS" })
             migrationAddsLogical     == SomeLine(m.addedLines, { "LOGICAL_PROPS" })
         IN  IF migrationRemovesPhysical /\ migrationAddsLogical THEN "CORRECT"
             ELSE IF migrationAddsLogical /\ ~migrationRemovesPhysical THEN "CORRECT"
             ELSE IF ~migrationRemovesPhysical /\ ~migrationAddsLogical THEN "MISSING"
             ELSE "INCORRECT"

(* page-masthead *)

hasOldHeaderPatterns(lines) ==
    SomeLine(lines, { "PAGE_HEADER_PROP_RE", "PAGE_HEADER_COMPONENT_RE" })
hasNewMastheadPatterns(lines) ==
    SomeLine(lines, { "PAGE_MASTHEAD_PROP_RE", "MASTHEAD_COMPONENT_RE" })

pageMasthead_applicable(g) ==
    hasOldHeaderPatterns(g.removedLines) \/ hasNewMastheadPatterns(g.addedLines)

pageMasthead_detect(g, m) ==
    IF ~pageMasthead_applicable(g) THEN "NOT_APPLICABLE"
    ELSE IF m = Null THEN "FILE_MISSING"
    ELSE LET goldenAddsMasthead == hasNewMastheadPatterns(g.addedLines)
             migRemovesHeader   == hasOldHeaderPatterns(m.removedLines)
             migAddsMasthead    == hasNewMastheadPatterns(m.addedLines)
             migAddsHeader      == hasOldHeaderPatterns(m.addedLines)
         IN  IF ~migRemovesHeader /\ ~migAddsMasthead THEN "MISSING"
             ELSE IF (goldenAddsMasthead /\ migRemovesHeader /\ ~migAddsMasthead) \/ migAddsHeader
                  THEN "INCORRECT"
             ELSE "CORRECT"

(* react-tokens-icon-status *)

hasOldTokenOrIconPatterns(lines) ==
    SomeLine(lines, { "OLD_TOKENS_IMPORT_RE", "OLD_GLOBAL_TOKEN_RE",
                      "OLD_ICON_IMPORT_RE", "OLD_STATUS_IMPORT_RE" })
hasNewTokenOrIconPatterns(lines) ==
    SomeLine(lines, { "NEW_TOKENS_IMPORT_RE", "NEW_TOKEN_FORMAT_RE", "NEW_ICON_IMPORT_RE" })

reactTokensIconStatus_applicable(g) ==
    hasOldTokenOrIconPatterns(g.removedLines) \/ hasNewTokenOrIconPatterns(g.addedLines)

reactTokensIconStatus_detect(g, m) ==
    IF ~reactTokensIconStatus_applicable(g) THEN "NOT_APPLICABLE"
    ELSE IF m = Null THEN "FILE_MISSING"
    ELSE LET goldenAddsNew == hasNewTokenOrIconPatterns(g.addedLines)
             migRemovesOld == hasOldTokenOrIconPatterns(m.removedLines)
             migAddsNew    == hasNewTokenOrIconPatterns(m.addedLines)
             migAddsOld    == hasOldTokenOrIconPatterns(m.addedLines)
         IN  IF ~migRemovesOld /\ ~migAddsNew THEN "MISSING"
             ELSE IF (goldenAddsNew /\ migRemovesOld /\ ~migAddsNew) \/ migAddsOld
                  THEN "INCORRECT"
             ELSE "CORRECT"

(* split-button-items *)

splitButtonItems_applicable(g) == SomeLine(g.removedLines, { "SPLIT_BUTTON_OPTIONS_RE" })

splitButtonItems_detect(g, m) ==
    IF ~splitButtonItems_applicable(g) THEN "NOT_APPLICABLE"
    ELSE IF m = Null THEN "FILE_MISSING"
    ELSE LET migrationRemovesSplitButtonOptions == SomeLine(m.removedLines, { "SPLIT_BUTTON_OPTIONS_RE" })
             migrationAddsSplitButtonItems == SomeLine(m.addedLines, { "SPLIT_BUTTON_ITEMS_RE" })
         IN  IF migrationRemovesSplitButtonOptions /\ migrationAddsSplitButtonItems THEN "CORRECT"
             ELSE IF migrationRemovesSplitButtonOptions /\ ~migrationAddsSplitButtonItems THEN "INCORRECT"
             ELSE "MISSING"

(* modal-import-path *)

hasModalMainImport(lines) ==
    SomeLineAll(lines, { "MODAL_SPECIFIER_RE", "MODAL_MAIN_IMPORT_RE" })
hasModalDeprecatedImport(lines) ==
    SomeLineAll(lines, { "MODAL_SPECIFIER_RE", "MODAL_DEPRECATED_IMPORT_RE" })

modalImportPath_applicable(g) == hasModalMainImport(g.removedLines)

modalImportPath_detect(g, m) ==
    IF ~modalImportPath_applicable(g) THEN "NOT_APPLICABLE"
    ELSE IF m = Null THEN "FILE_MISSING"
    ELSE LET migrationRemovesModalMain == hasModalMainImport(m.removedLines)
             migrationAddsModalDeprecated == hasModalDeprecatedImport(m.addedLines)
         IN  IF migrationRemovesModalMain /\ migrationAddsModalDeprecated THEN "CORRECT"
             ELSE IF migrationRemovesModalMain /\ ~migrationAddsModalDeprecated THEN "INCORRECT"
             ELSE "MISSING"

(* align-right-to-end *)

alignRightToEnd_applicable(g) == SomeLine(g.removedLines, { "ALIGN_RIGHT_RE" })

alignRightToEnd_detect(g, m) ==
    IF ~alignRightToEnd_applicable(g) THEN "NOT_APPLICABLE"
    ELSE IF m = Null THEN "FILE_MISSING"
    ELSE LET migrationRemovesAlignRight == SomeLine(m.removedLines, { "ALIGN_RIGHT_RE" })
             migrationAddsAlignEnd == SomeLine(m.addedLines, { "ALIGN_END_RE" })
         IN  IF migrationRemovesAlignRight /\ migrationAddsAlignEnd THEN "CORRECT"
             ELSE IF migrationRemovesAlignRight /\ ~migrationAddsAlignEnd THEN "INCORRECT"
             ELSE "MISSING"

(* chips-to-labels *)

chipsToLabels_applicable(g) == SomeLine(g.removedLines, { "CHIPS_RE" })

chipsToLabels_detect(g, m) ==
    IF ~chipsToLabels_applicable(g) THEN "NOT_APPLICABLE"
    ELSE IF m = Null THEN "FILE_MISSING"
    ELSE LET migrationRemovesChips == SomeLine(m.removedLines, { "CHIPS_RE" })
             migrationAddsLabels == SomeLine(m.addedLines, { "LABELS_RE" })
         IN  IF migrationRemovesChips /\ migrationAddsLabels THEN "CORRECT"
             ELSE IF migrationRemovesChips /\ ~migrationAddsLabels THEN "INCORRECT"
             ELSE "MISSING"

(* inner-ref-to-ref *)

innerRefToRef_applicable(g) == SomeLine(g.removedLines, { "INNER_REF_RE" })

innerRefToRef_detect(g, m) ==
    IF ~innerRefToRef_applicable(g) THEN "NOT_APPLICABLE"
    ELSE IF m = Null THEN "FILE_MISSING"
    ELSE LET migrationRemovesInnerRef == SomeLine(m.removedLines, { "INNER_REF_RE" })
             migrationAddsRef == SomeLine(m.addedLines, { "REF_RE" })
         IN  IF migrationRemovesInnerRef /\ migrationAddsRef THEN "CORRECT"
             ELSE IF migrationRemovesInnerRef /\ ~migrationAddsRef THEN "INCORRECT"
             ELSE "MISSING"

(* is-action-cell *)

isActionCell_applicable(g) == SomeLine(g.removedLines, { "IS_ACTION_CELL_RE" })

isActionCell_detect(g, m) ==
    IF ~isActionCell_applicable(g) THEN "NOT_APPLICABLE"
    ELSE IF m = Null THEN "FILE_MISSING"
    ELSE LET migrationRemovesIsActionCell == SomeLine(m.removedLines, { "IS_ACTION_CELL_RE" })
             migrationAddsHasAction == SomeLine(m.addedLines, { "HAS_ACTION_RE" })
         IN  IF migrationRemovesIsActionCell /\ migrationAddsHasAction THEN "CORRECT"
             ELSE IF migrationRemovesIsActionCell /\ ~migrationAddsHasAction THEN "INCORRECT"
             ELSE "MISSING"

(* toolbar-variant *)

toolbarVariant_hasOldVariants(lines) ==
    SomeLine(lines, { "CHIP_GROUP_VARIANT_RE", "BULK_SELECT_VARIANT_RE",
                      "OVERFLOW_MENU_VARIANT_RE", "SEARCH_FILTER_VARIANT_RE" })

toolbarVariant_applicable(g) == toolbarVariant_hasOldVariants(g.removedLines)

toolbarVariant_detect(g, m) ==
    IF ~toolbarVariant_applicable(g) THEN "NOT_APPLICABLE"
    ELSE IF m = Null THEN "FILE_MISSING"
    ELSE IF ~toolbarVariant_hasOldVariants(m.removedLines) THEN "MISSING"
    ELSE LET goldenHasChipGroup  == SomeLine(g.removedLines, { "CHIP_GROUP_VARIANT_RE" })
             migRemovesChipGroup == SomeLine(m.removedLines, { "CHIP_GROUP_VARIANT_RE" })
             migAddsLabelGroup   == SomeLine(m.addedLines, { "LABEL_GROUP_VARIANT_RE" })
             migAddsOldVariants  == toolbarVariant_hasOldVariants(m.addedLines)
         IN  IF \/ goldenHasChipGroup /\ migRemovesChipGroup /\ ~migAddsLabelGroup
                \/ migAddsOldVariants
             THEN "INCORRECT"
             ELSE "CORRECT"

(* text-content-consolidation *)

hasTextComponents(lines)   == SomeLine(lines, { "PF5_TEXT_NAMES", "PF5_TEXT_COMPONENT" })
hasContentComponent(lines) == SomeLine(lines, { "PF6_CONTENT", "PF6_CONTENT_NAMES" })

\* removedLines.some(OLD.test) && addedLines.some(NEW.test)
HasRename(d, old, new) ==
    SomeLine(d.removedLines, { old }) /\ SomeLine(d.addedLines, { new })

textContentConsolidation_applicable(g) ==
    hasTextComponents(g.removedLines) /\ hasContentComponent(g.addedLines)

textContentConsolidation_detect(g, m) ==
    IF ~textContentConsolidation_applicable(g) THEN "NOT_APPLICABLE"
    ELSE IF m = Null THEN "FILE_MISSING"
    ELSE LET migRemovesText == hasTextComponents(m.removedLines)
             migAddsContent == hasContentComponent(m.addedLines)
         IN  IF migRemovesText /\ migAddsContent
             THEN IF \/ /\ HasRename(g, "PF5_IS_VISITED", "PF6_IS_VISITED_LINK")
                        /\ ~HasRename(m, "PF5_IS_VISITED", "PF6_IS_VISITED_LINK")
                     \/ /\ HasRename(g, "PF5_IS_PLAIN", "PF6_IS_PLAIN_LIST")
                        /\ ~HasRename(m, "PF5_IS_PLAIN", "PF6_IS_PLAIN_LIST")
                  THEN "INCORRECT"
                  ELSE "CORRECT"
             ELSE IF migRemovesText /\ ~migAddsContent THEN "INCORRECT"
             ELSE "MISSING"

(* page-section-variant *)

pageSectionVariant_hasOldVariants(lines) ==
    \/ SomeLine(lines, { "VARIANT_LIGHT_RE", "VARIANT_DARK_RE", "VARIANT_DARKER_RE" })
    \/ SomeLineAll(lines, { "PAGE_SECTION_VARIANTS_RE", "PAGE_SECTION_RE" })

hasVariantImportRemoval(lines) ==
    SomeLineAll(lines, { "PAGE_SECTION_VARIANTS_RE", "/import/" })

pageSectionVariant_applicable(g) ==
    pageSectionVariant_hasOldVariants(g.removedLines) \/ hasVariantImportRemoval(g.removedLines)

pageSectionVariant_detect(g, m) ==
    IF ~pageSectionVariant_applicable(g) THEN "NOT_APPLICABLE"
    ELSE IF m = Null THEN "FILE_MISSING"
    ELSE IF /\ ~pageSectionVariant_hasOldVariants(m.removedLines)
            /\ ~hasVariantImportRemoval(m.removedLines)
         THEN "MISSING"
    ELSE IF \/ pageSectionVariant_hasOldVariants(m.addedLines)
            \/ hasVariantImportRemoval(m.addedLines)
         THEN "INCORRECT"
    ELSE "CORRECT"

(* An ASTRepresentation is held as its jsxComponents and imports; the     *)
(* props of a component are held as a set of [name, value] records.        *)
(* detectWithAST returns a status, or Inconclusive for null.               *)

Inconclusive == "null"

\* ast.jsxComponents.some(c => c.tagName === tag)
HasTag(ast, tag) ==
    \E i \in DOMAIN ast.jsxComponents : ast.jsxComponents[i].tagName = tag

\* ast.jsxComponents.filter(c => c.tagName === tag).some(c => c.props.some(p => names has p.name))
TagHasProp(ast, tag, names) ==
    \E i \in DOMAIN ast.jsxComponents :
        /\ ast.jsxComponents[i].tagName = tag
        /\ \E p \in ast.jsxComponents[i].props : p.name \in names

(* select-rewrite *)

hasOldSelectAPI(lines) ==
    SomeLine(lines, { "PF5_ON_TOGGLE_RE", "PF5_IS_OPEN_RE", "PF5_SELECTIONS_RE",
                      "PF5_PLACEHOLDER_RE", "PF5_SELECT_VARIANT_RE" })
hasNewSelectAPI(lines) ==
    SomeLine(lines, { "MENU_TOGGLE_RE", "SELECT_LIST_RE", "TOGGLE_PROP_RE", "ON_OPEN_CHANGE_RE" })
hasSelectUsage(lines) == SomeLine(lines, { "SELECT_TAG_RE" })

selectRewrite_detectWithAST(gAST, mAST) ==
    LET oldProps == { "onToggle", "isOpen", "selections", "placeholderText" } IN
    IF ~HasTag(gAST, "Select") THEN Inconclusive
    ELSE IF ~TagHasProp(gAST, "Select", oldProps) THEN Inconclusive
    ELSE IF TagHasProp(mAST, "Select", oldProps) THEN "INCORRECT"
    ELSE IF \/ HasTag(mAST, "MenuToggle")
            \/ HasTag(mAST, "SelectList")
            \/ TagHasProp(mAST, "Select", { "toggle" })
         THEN "CORRECT"
    ELSE Inconclusive

selectRewrite_applicable(g) ==
    /\ hasSelectUsage(g.removedLines) \/ hasSelectUsage(g.addedLines)
    /\ hasOldSelectAPI(g.removedLines) \/ hasNewSelectAPI(g.addedLines)

\* detect, "Fall back to diff-based detection"
selectRewrite_text(g, m) ==
    LET migRemovesOldAPI   == hasOldSelectAPI(m.removedLines)
        migAddsNewAPI      == hasNewSelectAPI(m.addedLines)
        migStillAddsOldAPI == hasOldSelectAPI(m.addedLines)
    IN  IF migStillAddsOldAPI /\ ~migAddsNewAPI THEN "INCORRECT"
        ELSE IF migRemovesOldAPI /\ migAddsNewAPI THEN "CORRECT"
        ELSE IF migAddsNewAPI THEN "CORRECT"
        ELSE IF migRemovesOldAPI THEN "INCORRECT"
        ELSE "MISSING"

\* detect that trusts the structured stage whenever both inputs are given.
selectRewrite_detect_NoFallback(g, m, gAST, mAST) ==
    IF ~selectRewrite_applicable(g) THEN "NOT_APPLICABLE"
    ELSE IF m = Null THEN "FILE_MISSING"
    ELSE IF gAST # NoAST /\ mAST # NoAST
         THEN IF selectRewrite_detectWithAST(gAST, mAST) = Inconclusive
              THEN "MISSING"
              ELSE selectRewrite_detectWithAST(gAST, mAST)
    ELSE selectRewrite_text(g, m)

selectRewrite_detect(g, m, gAST, mAST) ==
    IF ~selectRewrite_applicable(g) THEN "NOT_APPLICABLE"
    ELSE IF m = Null THEN "FILE_MISSING"
    ELSE IF /\ gAST # NoAST /\ mAST # NoAST
            /\ selectRewrite_detectWithAST(gAST, mAST) # Inconclusive
         THEN selectRewrite_detectWithAST(gAST, mAST)
    ELSE selectRewrite_text(g, m)

(* empty-state-restructure *)

hasEmptyStateChildren(lines) ==
    SomeLine(lines, { "EMPTY_STATE_HEADER_RE", "EMPTY_STATE_ICON_RE" })
hasEmptyStatePropsPattern(lines) == SomeLine(lines, { "TITLE_TEXT_PROP_RE" })

\* lines.some(l => (HEADER.test || ICON.test) && /import/.test)
RemovesEmptyStateImports(lines) ==
    \E i \in DOMAIN lines :
        /\ { "EMPTY_STATE_HEADER_RE", "EMPTY_STATE_ICON_RE" } \cap lines[i].content # {}
        /\ "/import/" \in lines[i].content

emptyStateRestructure_detectWithAST(gAST, mAST) ==
    IF ~HasTag(gAST, "EmptyStateHeader") /\ ~HasTag(gAST, "EmptyStateIcon") THEN Inconclusive
    ELSE IF HasTag(mAST, "EmptyStateHeader") \/ HasTag(mAST, "EmptyStateIcon") THEN "INCORRECT"
    ELSE IF TagHasProp(mAST, "EmptyState", { "titleText" })
            \/ TagHasProp(mAST, "EmptyState", { "icon" })
         THEN "CORRECT"
    ELSE Inconclusive

emptyStateRestructure_applicable(g) ==
    hasEmptyStateChildren(g.removedLines) \/ RemovesEmptyStateImports(g.removedLines)

emptyStateRestructure_text(g, m) ==
    LET migRemovesChildren == hasEmptyStateChildren(m.removedLines)
        migAddsProps       == hasEmptyStatePropsPattern(m.addedLines)
        migRemovesImports  == RemovesEmptyStateImports(m.removedLines)
    IN  IF (migRemovesChildren \/ migRemovesImports) /\ migAddsProps
        THEN IF hasEmptyStateChildren(m.addedLines) THEN "INCORRECT" ELSE "CORRECT"
        ELSE IF migRemovesChildren \/ migRemovesImports THEN "INCORRECT"
        ELSE "MISSING"

emptyStateRestructure_detect(g, m, gAST, mAST) ==
    IF ~emptyStateRestructure_applicable(g) THEN "NOT_APPLICABLE"
    ELSE IF m = Null THEN "FILE_MISSING"
    ELSE IF /\ gAST # NoAST /\ mAST # NoAST
            /\ emptyStateRestructure_detectWithAST(gAST, mAST) # Inconclusive
         THEN emptyStateRestructure_detectWithAST(gAST, mAST)
    ELSE emptyStateRestructure_text(g, m)

(* button-icon-prop *)

hasButtonIconChanges(removedLines, addedLines) ==
    /\ SomeLine(removedLines, { "BUTTON_TAG_RE" })
    /\ SomeLineAll(addedLines, { "BUTTON_TAG_RE", "ICON_PROP_RE" })

buttonIconProp_detectWithAST(gAST, mAST) ==
    LET migHasIconProp     == TagHasProp(mAST, "Button", { "icon" })
        migHasPlainVariant ==
            \E i \in DOMAIN mAST.jsxComponents :
                /\ mAST.jsxComponents[i].tagName = "Button"
                /\ \E p \in mAST.jsxComponents[i].props :
                       p.name = "variant" /\ p.value = "plain"
    IN  IF ~HasTag(gAST, "Button") THEN Inconclusive
        ELSE IF migHasIconProp THEN "CORRECT"
        ELSE IF migHasPlainVariant /\ ~migHasIconProp THEN "INCORRECT"
        ELSE Inconclusive

buttonIconProp_applicable(g) == hasButtonIconChanges(g.removedLines, g.addedLines)

buttonIconProp_text(g, m) ==
    IF hasButtonIconChanges(m.removedLines, m.addedLines) THEN "CORRECT"
    ELSE IF SomeLineAll(m.addedLines, { "BUTTON_TAG_RE", "ICON_PROP_RE" }) THEN "CORRECT"
    ELSE IF /\ SomeLine(m.removedLines, { "BUTTON_TAG_RE" })
            /\ SomeLineAll(m.addedLines, { "BUTTON_TAG_RE", "VARIANT_PLAIN_RE" })
         THEN "INCORRECT"
    ELSE "MISSING"

buttonIconProp_detect(g, m, gAST, mAST) ==
    IF ~buttonIconProp_applicable(g) THEN "NOT_APPLICABLE"
    ELSE IF m = Null THEN "FILE_MISSING"
    ELSE IF /\ gAST # NoAST /\ mAST # NoAST
            /\ buttonIconProp_detectWithAST(gAST, mAST) # Inconclusive
         THEN buttonIconProp_detectWithAST(gAST, mAST)
    ELSE buttonIconProp_text(g, m)

(* masthead-reorganization *)

hasMastheadSubComponents(lines) ==
    SomeLine(lines, { "MASTHEAD_TOGGLE_RE", "MASTHEAD_MAIN_RE",
                      "MASTHEAD_BRAND_RE", "MASTHEAD_CONTENT_RE" })
hasMastheadLogo(lines) == SomeLine(lines, { "MASTHEAD_LOGO_RE" })

hasReorganizationSignals(removedLines, addedLines) ==
    \/ hasMastheadLogo(addedLines)
    \/ hasMastheadSubComponents(removedLines) /\ hasMastheadSubComponents(addedLines)

mastheadReorganization_detectWithAST(gAST, mAST) ==
    IF /\ ~HasTag(gAST, "MastheadToggle") /\ ~HasTag(gAST, "MastheadMain")
       /\ ~HasTag(gAST, "MastheadBrand")
    THEN Inconclusive
    ELSE IF HasTag(mAST, "MastheadLogo") THEN "CORRECT"
    ELSE IF /\ HasTag(mAST, "MastheadToggle") /\ HasTag(mAST, "MastheadMain")
            /\ HasTag(mAST, "MastheadBrand")
         THEN "INCORRECT"
    ELSE Inconclusive

mastheadReorganization_applicable(g) ==
    hasReorganizationSignals(g.removedLines, g.addedLines)

mastheadReorganization_text(g, m) ==
    LET goldenAddsMastheadLogo == hasMastheadLogo(g.addedLines)
        migAddsMastheadLogo    == hasMastheadLogo(m.addedLines)
        migRestructures        == /\ hasMastheadSubComponents(m.removedLines)
                                  /\ hasMastheadSubComponents(m.addedLines)
    IN  IF migAddsMastheadLogo THEN "CORRECT"
        ELSE IF migRestructures
             THEN IF goldenAddsMastheadLogo THEN "INCORRECT" ELSE "CORRECT"
        ELSE "MISSING"

mastheadReorganization_detect(g, m, gAST, mAST) ==
    IF ~mastheadReorganization_applicable(g) THEN "NOT_APPLICABLE"
    ELSE IF m = Null THEN "FILE_MISSING"
    ELSE IF /\ gAST # NoAST /\ mAST # NoAST
            /\ mastheadReorganization_detectWithAST(gAST, mAST) # Inconclusive
         THEN mastheadReorganization_detectWithAST(gAST, mAST)
    ELSE mastheadReorganization_text(g, m)

(* avatar-adoption *)

hasAvatarChanges(removedLines, addedLines) ==
    SomeLine(removedLines, { "AVATAR_TAG_RE" }) \/ SomeLine(addedLines, { "AVATAR_TAG_RE" })

avatarAdoption_detectWithAST(gAST, mAST) ==
    LET migHasBorder    == TagHasProp(mAST, "Avatar", { "isBordered" })
        migHasSize      == TagHasProp(mAST, "Avatar", { "size" })
        goldenHasBorder == TagHasProp(gAST, "Avatar", { "isBordered" })
        goldenHasSize   == TagHasProp(gAST, "Avatar", { "size" })
    IN  IF ~HasTag(gAST, "Avatar") THEN Inconclusive
        ELSE IF ~HasTag(mAST, "Avatar") THEN "MISSING"
        ELSE IF (goldenHasBorder \/ goldenHasSize) /\ (migHasBorder \/ migHasSize)
             THEN "CORRECT"
        ELSE IF (goldenHasBorder \/ goldenHasSize) /\ ~migHasBorder /\ ~migHasSize
             THEN "INCORRECT"
        ELSE Inconclusive

avatarAdoption_applicable(g) == hasAvatarChanges(g.removedLines, g.addedLines)

avatarAdoption_text(g, m) ==
    LET migHasBorder    == SomeLineAll(m.addedLines, { "AVATAR_TAG_RE", "AVATAR_BORDER_RE" })
        migHasSize      == SomeLineAll(m.addedLines, { "AVATAR_TAG_RE", "AVATAR_SIZE_RE" })
        goldenHasBorder == SomeLineAll(g.addedLines, { "AVATAR_TAG_RE", "AVATAR_BORDER_RE" })
        goldenHasSize   == SomeLineAll(g.addedLines, { "AVATAR_TAG_RE", "AVATAR_SIZE_RE" })
    IN  IF ~hasAvatarChanges(m.removedLines, m.addedLines) THEN "MISSING"
        ELSE IF \/ goldenHasBorder /\ ~migHasBorder
                \/ goldenHasSize /\ ~migHasSize
             THEN "INCORRECT"
        ELSE "CORRECT"

avatarAdoption_detect(g, m, gAST, mAST) ==
    IF ~avatarAdoption_applicable(g) THEN "NOT_APPLICABLE"
    ELSE IF m = Null THEN "FILE_MISSING"
    ELSE IF /\ gAST # NoAST /\ mAST # NoAST
            /\ avatarAdoption_detectWithAST(gAST, mAST) # Inconclusive
         THEN avatarAdoption_detectWithAST(gAST, mAST)
    ELSE avatarAdoption_text(g, m)

(* test-selector-rewrite *)

TestQueryREs == { "GET_BY_TESTID_RE", "GET_BY_ROLE_RE", "GET_BY_LABEL_RE", "CY_GET_RE" }

hasTestSelectorChanges(removedLines, addedLines) ==
    LET removesSelectors    == SomeLine(removedLines, { "DATA_TESTID_RE", "ARIA_LABEL_RE",
                                   "PF5_CSS_SELECTOR_RE", "PF5_CLASS_SELECTOR_RE" })
        addsSelectors       == SomeLine(addedLines, { "DATA_TESTID_RE", "ARIA_LABEL_RE",
                                   "PF6_CSS_SELECTOR_RE", "PF6_CLASS_SELECTOR_RE" })
        removesTestQueries  == SomeLine(removedLines, TestQueryREs)
        addsTestQueries     == SomeLine(addedLines, TestQueryREs)
        removesPF5Selectors == SomeLine(removedLines, { "PF5_CSS_SELECTOR_RE" })
        addsPF6Selectors    == SomeLine(addedLines, { "PF6_CSS_SELECTOR_RE" })
    IN  \/ removesSelectors /\ addsSelectors
        \/ removesTestQueries /\ addsTestQueries
        \/ removesPF5Selectors /\ addsPF6Selectors

hasPF5CSSSelectors(lines) == SomeLine(lines, { "PF5_CSS_SELECTOR_RE" })
hasPF6CSSSelectors(lines) == SomeLine(lines, { "PF6_CSS_SELECTOR_RE" })

hasTestIdChanges(removedLines, addedLines) ==
    SomeLine(removedLines, { "DATA_TESTID_RE" }) /\ SomeLine(addedLines, { "DATA_TESTID_RE" })
hasAriaLabelChanges(removedLines, addedLines) ==
    SomeLine(removedLines, { "ARIA_LABEL_RE" }) /\ SomeLine(addedLines, { "ARIA_LABEL_RE" })
hasTestQueryChanges(removedLines, addedLines) ==
    SomeLine(removedLines, TestQueryREs) /\ SomeLine(addedLines, TestQueryREs)

\* The four change categories of a diff, in the order detect counts them.
SelectorChanges(d) ==
    << hasTestIdChanges(d.removedLines, d.addedLines),
       hasAriaLabelChanges(d.removedLines, d.addedLines),
       hasPF5CSSSelectors(d.removedLines) /\ hasPF6CSSSelectors(d.addedLines),
       hasTestQueryChanges(d.removedLines, d.addedLines) >>

testSelectorRewrite_applicable(g) == hasTestSelectorChanges(g.removedLines, g.addedLines)

testSelectorRewrite_detect(g, m) ==
    IF ~testSelectorRewrite_applicable(g) THEN "NOT_APPLICABLE"
    ELSE IF m = Null THEN "FILE_MISSING"
    ELSE LET golden          == SelectorChanges(g)
             mig             == SelectorChanges(m)
             migStillAddsPF5 == hasPF5CSSSelectors(m.addedLines)
             expectedCount   == Cardinality({ k \in 1..4 : golden[k] })
             matchedCount    == Cardinality({ k \in 1..4 : golden[k] /\ mig[k] })
         IN  IF golden[3] /\ migStillAddsPF5 /\ ~mig[3] THEN "INCORRECT"
             ELSE IF matchedCount = expectedCount THEN "CORRECT"
             ELSE IF matchedCount > 0 THEN "INCORRECT"
             ELSE "MISSING"

(* The shipped detectors: what pattern.detect and its applicability test  *)
(* are for each pattern id.                                                *)

PatternIds ==
    { "theme-dark-removal", "space-items-removal", "css-class-prefix",
      "utility-class-rename", "css-logical-properties", "toolbar-gap",
      "page-masthead", "react-tokens-icon-status", "ouia-component-id",
      "split-button-items", "modal-import-path", "align-right-to-end",
      "chips-to-labels", "inner-ref-to-ref", "is-action-cell",
      "toolbar-variant", "text-content-consolidation", "page-section-variant",
      "test-selector-rewrite", "select-rewrite", "empty-state-restructure",
      "button-icon-prop", "masthead-reorganization", "avatar-adoption" }

ASTPatternIds ==
    { "select-rewrite", "empty-state-restructure", "button-icon-prop",
      "masthead-reorganization", "avatar-adoption" }

Applicable(id, g) ==
    CASE id = "theme-dark-removal" -> themeDarkRemoval_applicable(g)
      [] id = "space-items-removal" -> spaceItemsRemoval_applicable(g)
      [] id = "css-class-prefix" -> cssClassPrefix_applicable(g)
      [] id = "utility-class-rename" -> utilityClassRename_applicable(g)
      [] id = "css-logical-properties" -> cssLogicalProperties_applicable(g)
      [] id = "toolbar-gap" -> toolbarGap_applicable(g)
      [] id = "page-masthead" -> pageMasthead_applicable(g)
      [] id = "react-tokens-icon-status" -> reactTokensIconStatus_applicable(g)
      [] id = "ouia-component-id" -> ouiaComponentId_applicable(g)
      [] id = "split-button-items" -> splitButtonItems_applicable(g)
      [] id = "modal-import-path" -> modalImportPath_applicable(g)
      [] id = "align-right-to-end" -> alignRightToEnd_applicable(g)
      [] id = "chips-to-labels" -> chipsToLabels_applicable(g)
      [] id = "inner-ref-to-ref" -> innerRefToRef_applicable(g)
      [] id = "is-action-cell" -> isActionCell_applicable(g)
      [] id = "toolbar-variant" -> toolbarVariant_applicable(g)
      [] id = "text-content-consolidation" -> textContentConsolidation_applicable(g)
      [] id = "page-section-variant" -> pageSectionVariant_applicable(g)
      [] id = "test-selector-rewrite" -> testSelectorRewrite_applicable(g)
      [] id = "select-rewrite" -> selectRewrite_applicable(g)
      [] id = "empty-state-restructure" -> emptyStateRestructure_applicable(g)
      [] id = "button-icon-prop" -> buttonIconProp_applicable(g)
      [] id = "masthead-reorganization" -> mastheadReorganization_applicable(g)
      [] id = "avatar-adoption" -> avatarAdoption_applicable(g)

\* pattern.detect(goldenDiff, migrationDiff, goldenAST, migrationAST).status
detect(id, g, m, gAST, mAST) ==
    CASE id = "theme-dark-removal" -> themeDarkRemoval_detect(g, m)
      [] id = "space-items-removal" -> spaceItemsRemoval_detect(g, m)
      [] id = "css-class-prefix" -> cssClassPrefix_detect(g, m)
      [] id = "utility-class-rename" -> utilityClassRename_detect(g, m)
      [] id = "css-logical-properties" -> cssLogicalProperties_detect(g, m)
      [] id = "toolbar-gap" -> toolbarGap_detect(g, m)
      [] id = "page-masthead" -> pageMasthead_detect(g, m)
      [] id = "react-tokens-icon-status" -> reactTokensIconStatus_detect(g, m)
      [] id = "ouia-component-id" -> ouiaComponentId_detect(g, m)
      [] id = "split-button-items" -> splitButtonItems_detect(g, m)
      [] id = "modal-import-path" -> modalImportPath_detect(g, m)
      [] id = "align-right-to-end" -> alignRightToEnd_detect(g, m)
      [] id = "chips-to-labels" -> chipsToLabels_detect(g, m)
      [] id = "inner-ref-to-ref" -> innerRefToRef_detect(g, m)
      [] id = "is-action-cell" -> isActionCell_detect(g, m)
      [] id = "toolbar-variant" -> toolbarVariant_detect(g, m)
      [] id = "text-content-consolidation" -> textContentConsolidation_detect(g, m)
      [] id = "page-section-variant" -> pageSectionVariant_detect(g, m)
      [] id = "test-selector-rewrite" -> testSelectorRewrite_detect(g, m)
      [] id = "select-rewrite" -> selectRewrite_detect(g, m, gAST, mAST)
      [] id = "empty-state-restructure" -> emptyStateRestructure_detect(g, m, gAST, mAST)
      [] id = "button-icon-prop" -> buttonIconProp_detect(g, m, gAST, mAST)
      [] id = "masthead-reorganization" -> mastheadReorganization_detect(g, m, gAST, mAST)
      [] id = "avatar-adoption" -> avatarAdoption_detect(g, m, gAST, mAST)

\* The structured-input stage of a detector that has one.
detectWithAST(id, gAST, mAST) ==
    CASE id = "select-rewrite" -> selectRewrite_detectWithAST(gAST, mAST)
      [] id = "empty-state-restructure" -> emptyStateRestructure_detectWithAST(gAST, mAST)
      [] id = "button-icon-prop" -> buttonIconProp_detectWithAST(gAST, mAST)
      [] id = "masthead-reorganization" -> mastheadReorganization_detectWithAST(gAST, mAST)
      [] id = "avatar-adoption" -> avatarAdoption_detectWithAST(gAST, mAST)

\* The text heuristic of a detector, for a present candidate.
TextHeuristic(id, g, m) ==
    CASE id = "select-rewrite" -> selectRewrite_text(g, m)
      [] id = "empty-state-restructure" -> emptyStateRestructure_text(g, m)
      [] id = "button-icon-prop" -> buttonIconProp_text(g, m)
      [] id = "masthead-reorganization" -> mastheadReorganization_text(g, m)
      [] id = "avatar-adoption" -> avatarAdoption_text(g, m)
      [] OTHER -> detect(id, g, m, NoAST, NoAST)


-----------------------------------------------------------------------------
(* Inputs of detection.  A changed line is the set of the detector's       *)
(* regular expressions that match its text; each pool lists lines that     *)
(* source text can produce, e.g. '<Select onToggle={f} isOpen={o}>'.       *)

MaxChanged == 2

LinePool(id) ==
    CASE id = "theme-dark-removal" -> << { "THEME_DARK_RE" }, {} >>
      [] id = "space-items-removal" -> << { "SPACE_ITEMS_RE" }, {} >>
      [] id = "css-class-prefix" ->
            << { "PF5_CLASS_RE" }, { "PF6_CLASS_RE" }, { "PF5_CLASS_RE", "PF6_CLASS_RE" }, {} >>
      [] id = "utility-class-rename" -> << { "PF5_UTILITY_RE" }, { "PF6_UTILITY_RE" }, {} >>
      [] id = "css-logical-properties" -> << { "PHYSICAL_PROPS" }, { "LOGICAL_PROPS" }, {} >>
      [] id = "toolbar-gap" ->
            << { "SPACER_PROP_RE" }, { "SPACE_ITEMS_PROP_RE" }, { "GAP_PROP_RE" },
               { "COLUMN_GAP_PROP_RE", "ROW_GAP_PROP_RE" } >>
      [] id = "page-masthead" ->
            << { "PAGE_HEADER_PROP_RE", "PAGE_HEADER_COMPONENT_RE" }, { "PAGE_HEADER_COMPONENT_RE" },
               { "PAGE_MASTHEAD_PROP_RE", "MASTHEAD_COMPONENT_RE" }, {} >>
      [] id = "react-tokens-icon-status" ->
            << { "OLD_TOKENS_IMPORT_RE", "OLD_GLOBAL_TOKEN_RE" },
               { "NEW_TOKENS_IMPORT_RE", "NEW_TOKEN_FORMAT_RE" },
               { "OLD_ICON_IMPORT_RE", "OLD_STATUS_IMPORT_RE", "NEW_ICON_IMPORT_RE" },
               { "NEW_ICON_IMPORT_RE" } >>
      [] id = "ouia-component-id" -> << { "DATA_OUIA_RE" }, { "OUIA_ID_RE" }, {} >>
      [] id = "split-button-items" -> << { "SPLIT_BUTTON_OPTIONS_RE" }, { "SPLIT_BUTTON_ITEMS_RE" }, {} >>
      [] id = "modal-import-path" ->
            << { "MODAL_SPECIFIER_RE", "MODAL_MAIN_IMPORT_RE" },
               { "MODAL_SPECIFIER_RE", "MODAL_DEPRECATED_IMPORT_RE" },
               { "MODAL_MAIN_IMPORT_RE" }, { "MODAL_SPECIFIER_RE" } >>
      [] id = "align-right-to-end" -> << { "ALIGN_RIGHT_RE" }, { "ALIGN_END_RE" }, {} >>
      [] id = "chips-to-labels" -> << { "CHIPS_RE" }, { "LABELS_RE" }, {} >>
      [] id = "inner-ref-to-ref" -> << { "INNER_REF_RE" }, { "REF_RE" }, {} >>
      [] id = "is-action-cell" -> << { "IS_ACTION_CELL_RE" }, { "HAS_ACTION_RE" }, {} >>
      [] id = "toolbar-variant" ->
            << { "CHIP_GROUP_VARIANT_RE" }, { "LABEL_GROUP_VARIANT_RE" },
               { "BULK_SELECT_VARIANT_RE" }, {} >>
      [] id = "text-content-consolidation" ->
            << { "PF5_TEXT_COMPONENT", "PF5_IS_VISITED" },
               { "PF5_TEXT_NAMES", "PF5_IS_PLAIN" },
               { "PF6_CONTENT", "PF6_CONTENT_NAMES", "PF6_IS_VISITED_LINK" },
               { "PF6_CONTENT", "PF6_CONTENT_NAMES" } >>
      [] id = "page-section-variant" ->
            << { "VARIANT_LIGHT_RE" }, { "VARIANT_DARK_RE", "PAGE_SECTION_VARIANTS_RE" },
               { "PAGE_SECTION_VARIANTS_RE", "PAGE_SECTION_RE", "/import/" },
               { "PAGE_SECTION_RE" } >>
      [] id = "test-selector-rewrite" ->
            << { "DATA_TESTID_RE" }, { "ARIA_LABEL_RE" },
               { "PF5_CSS_SELECTOR_RE", "PF5_CLASS_SELECTOR_RE" },
               { "PF6_CSS_SELECTOR_RE", "PF6_CLASS_SELECTOR_RE" } >>
      [] id = "select-rewrite" ->
            << { "SELECT_TAG_RE", "PF5_ON_TOGGLE_RE", "PF5_IS_OPEN_RE" },
               { "SELECT_TAG_RE", "TOGGLE_PROP_RE", "MENU_TOGGLE_RE" },
               { "PF5_ON_TOGGLE_RE" } >>
      [] id = "empty-state-restructure" ->
            << { "EMPTY_STATE_HEADER_RE", "TITLE_TEXT_PROP_RE" }, { "TITLE_TEXT_PROP_RE" },
               { "EMPTY_STATE_HEADER_RE", "EMPTY_STATE_ICON_RE", "/import/" } >>
      [] id = "button-icon-prop" ->
            << { "BUTTON_TAG_RE", "VARIANT_PLAIN_RE" },
               { "BUTTON_TAG_RE", "ICON_PROP_RE", "VARIANT_PLAIN_RE" }, { "BUTTON_TAG_RE" } >>
      [] id = "masthead-reorganization" ->
            << { "MASTHEAD_TOGGLE_RE" }, { "MASTHEAD_BRAND_RE", "MASTHEAD_LOGO_RE" },
               { "MASTHEAD_MAIN_RE" } >>
      [] id = "avatar-adoption" ->
            << { "AVATAR_TAG_RE", "OLD_AVATAR_SRC_RE", "OLD_AVATAR_ALT_RE" },
               { "AVATAR_TAG_RE", "OLD_AVATAR_SRC_RE", "AVATAR_SIZE_RE" },
               { "AVATAR_TAG_RE", "AVATAR_BORDER_RE" } >>

\* A JSXProp and a JSXComponentUsage.
JSXProp(name, value) == [name |-> name, value |-> value]
JSX(tagName, propNames) ==
    [tagName |-> tagName, props |-> { JSXProp(n, "{expr}") : n \in propNames }]

\* An ASTRepresentation, by the JSX elements of the file.
AST(components) == [jsxComponents |-> components]

ASTPool(id) ==
    CASE id = "select-rewrite" ->
            { AST(<< JSX("Select", { "onToggle", "isOpen" }) >>),
              AST(<< JSX("Select", { "toggle" }), JSX("MenuToggle", { "onClick" }) >>),
              AST(<< JSX("Select", {}) >>) }
      [] id = "empty-state-restructure" ->
            { AST(<< JSX("EmptyState", {}), JSX("EmptyStateHeader", { "titleText" }) >>),
              AST(<< JSX("EmptyState", { "titleText", "icon" }) >>),
              AST(<< JSX("EmptyState", {}) >>) }
      [] id = "button-icon-prop" ->
            { AST(<< [tagName |-> "Button", props |-> { JSXProp("variant", "plain") }] >>),
              AST(<< [tagName |-> "Button",
                      props |-> { JSXProp("variant", "plain"), JSXProp("icon", "{expr}") }] >>),
              AST(<< JSX("Page", {}) >>) }
      [] id = "masthead-reorganization" ->
            { AST(<< JSX("MastheadToggle", {}), JSX("MastheadMain", {}),
                     JSX("MastheadBrand", {}) >>),
              AST(<< JSX("MastheadMain", {}), JSX("MastheadBrand", {}),
                     JSX("MastheadLogo", {}) >>),
              AST(<< JSX("Masthead", {}) >>) }
      [] id = "avatar-adoption" ->
            { AST(<< JSX("Avatar", { "src", "alt" }) >>),
              AST(<< JSX("Avatar", { "src", "alt", "size" }) >>),
              AST(<< JSX("Page", {}) >>) }
      [] OTHER -> { AST(<< JSX("Page", {}) >>) }

\* The structured inputs of one call: the driver analyzes both files of a
\* matched pair; a caller of detect may pass either, both or none.
ASTPairs(id) ==
    IF id \in ASTPatternIds
    THEN (ASTPool(id) \cup { NoAST }) \X (ASTPool(id) \cup { NoAST })
    ELSE { << NoAST, NoAST >> } \cup (ASTPool(id) \X ASTPool(id))

RECURSIVE SortedSeq(_)
SortedSeq(S) ==
    IF S = {} THEN << >>
    ELSE LET least == CHOOSE x \in S : \A y \in S : x <= y
         IN  << least >> \o SortedSeq(S \ { least })

\* The DiffLine entries for the pool lines picked, in line order.
DiffLines(picked, pool) ==
    LET idx == SortedSeq(picked)
    IN  [i \in DOMAIN idx |-> [lineNumber |-> i, content |-> pool[idx[i]]]]

DetectPath == "src/App.tsx"

\* The Change Records of a file over the detector's pool.
FileDiffs(id) ==
    LET pool == LinePool(id)
        pick == { S \in SUBSET DOMAIN pool : Cardinality(S) <= MaxChanged }
    IN  { [filePath |-> DetectPath,
           removedLines |-> DiffLines(r, pool),
           addedLines |-> DiffLines(a, pool)] :
          <<r, a>> \in { pr \in pick \X pick :
                            Cardinality(pr[1]) + Cardinality(pr[2]) <= MaxChanged } }

EmptyFileDiff == [filePath |-> DetectPath, removedLines |-> << >>, addedLines |-> << >>]

DetectInit ==
    \E id \in PatternIds :
      \E g \in FileDiffs(id) :
        \E m \in FileDiffs(id) \cup { Null } :
          \E asts \in ASTPairs(id) :
            /\ patternId = id
            /\ goldenDiff = g
            /\ migrationDiff = m
            /\ goldenAST = asts[1]
            /\ migrationAST = asts[2]
            /\ result = "none"
            /\ dpc = "input"

\* for (const pattern of patterns) pattern.detect(golden, migration, goldenAST, migrationAST)
Detect ==
    /\ dpc = "input"
    /\ result' = detect(patternId, goldenDiff, migrationDiff, goldenAST, migrationAST)
    /\ dpc' = "detected"
    /\ UNCHANGED << patternId, goldenDiff, migrationDiff, goldenAST, migrationAST >>
    /\ UNCHANGED << matchVars, parseVars, scoreVars, runVars >>

\* The same golden record evaluated against another candidate: a missed
\* file (null, undefined), or a candidate file without changed lines.
DetectOther ==
    /\ dpc = "detected"
    /\ \E other \in { << Null, NoAST >> } \cup ({ EmptyFileDiff } \X (ASTPool(patternId) \cup { NoAST })) :
          /\ << other[1], other[2] >> # << migrationDiff, migrationAST >>
          /\ migrationDiff' = other[1]
          /\ migrationAST' = other[2]
          /\ result' = detect(patternId, goldenDiff, other[1], goldenAST, other[2])
    /\ dpc' = "redetected"
    /\ UNCHANGED << patternId, goldenDiff, goldenAST >>
    /\ UNCHANGED << matchVars, parseVars, scoreVars, runVars >>


-----------------------------------------------------------------------------
(* Detection claims                                                        *)

Detected == dpc \in { "detected", "redetected" }

NoChange(d) == d.removedLines = << >> /\ d.addedLines = << >>

\* C6: detect with an absent (null) candidate returns NOT_APPLICABLE when
\* the golden record shows no evidence of the pattern and FILE_MISSING
\* otherwise, for every detector; no other outcome, and no exception.
C6_AbsentCandidate ==
    (Detected /\ migrationDiff = Null) =>
        result = IF Applicable(patternId, goldenDiff) THEN "FILE_MISSING"
                 ELSE "NOT_APPLICABLE"

C6_Witness ==
    /\ dpc = "detected" /\ migrationDiff = Null
    /\ Applicable(patternId, goldenDiff)
    /\ result = "FILE_MISSING"
    /\ patternId = "theme-dark-removal"

\* C7: for a fixed detector and golden record, two calls of detect that
\* differ only on the candidate side (record, absent record, structured
\* input) agree on whether the outcome is NOT_APPLICABLE.
C7_CandidateBlind ==
    [][ dpc' = "redetected" =>
            /\ patternId' = patternId /\ goldenDiff' = goldenDiff /\ goldenAST' = goldenAST
            /\ (result' = "NOT_APPLICABLE") <=> (result = "NOT_APPLICABLE") ]_vars

C7_Witness ==
    /\ dpc = "redetected"
    /\ patternId = "css-class-prefix"
    /\ migrationDiff = EmptyFileDiff /\ migrationAST # NoAST
    /\ Applicable(patternId, goldenDiff)
    /\ result = "MISSING"

\* C8: with an applicable golden record and a present candidate record
\* whose added-line and removed-line lists are both empty, the outcome is
\* MISSING, for every detector.
C8_NoChangeIsMissing ==
    ( /\ Detected
      /\ Applicable(patternId, goldenDiff)
      /\ migrationDiff # Null
      /\ NoChange(migrationDiff) ) => result = "MISSING"

\* The old construct of a detector whose pattern removes one.
OldConstruct(id) ==
    CASE id = "theme-dark-removal" -> { "THEME_DARK_RE" }
      [] id = "space-items-removal" -> { "SPACE_ITEMS_RE" }
      [] id = "css-class-prefix" -> { "PF5_CLASS_RE" }
      [] id = "utility-class-rename" -> { "PF5_UTILITY_RE" }
      [] id = "css-logical-properties" -> { "PHYSICAL_PROPS" }
      [] id = "toolbar-gap" -> { "SPACER_PROP_RE", "SPACE_ITEMS_PROP_RE" }
      [] id = "ouia-component-id" -> { "DATA_OUIA_RE" }
      [] id = "split-button-items" -> { "SPLIT_BUTTON_OPTIONS_RE" }
      [] id = "align-right-to-end" -> { "ALIGN_RIGHT_RE" }
      [] id = "chips-to-labels" -> { "CHIPS_RE" }
      [] id = "inner-ref-to-ref" -> { "INNER_REF_RE" }
      [] id = "is-action-cell" -> { "IS_ACTION_CELL_RE" }
      [] id = "select-rewrite" ->
            { "PF5_ON_TOGGLE_RE", "PF5_IS_OPEN_RE", "PF5_SELECTIONS_RE",
              "PF5_PLACEHOLDER_RE", "PF5_SELECT_VARIANT_RE" }
      [] id = "empty-state-restructure" -> { "EMPTY_STATE_HEADER_RE", "EMPTY_STATE_ICON_RE" }
      [] OTHER -> {}

\* C9: when the golden record applies the pattern by removing an old
\* construct and the present candidate's added lines contain that old
\* construct again, the outcome is INCORRECT, whatever else the candidate
\* adds or removes.
C9_ReAddIsIncorrect ==
    ( /\ Detected
      /\ Applicable(patternId, goldenDiff)
      /\ SomeLine(goldenDiff.removedLines, OldConstruct(patternId))
      /\ migrationDiff # Null
      /\ SomeLine(migrationDiff.addedLines, OldConstruct(patternId)) ) => result = "INCORRECT"

\* The structured-input stage gave no verdict (a detector without such a
\* stage never gets one).
StageInconclusive ==
    patternId \in ASTPatternIds => detectWithAST(patternId, goldenAST, migrationAST) = Inconclusive

\* C10: with an applicable golden record and a present candidate record,
\* when either structured input is absent or the structured-input stage is
\* inconclusive, detect returns exactly the outcome of its text heuristic
\* on the same two records.
C10_FallsBackToText ==
    ( /\ Detected
      /\ Applicable(patternId, goldenDiff)
      /\ migrationDiff # Null
      /\ goldenAST = NoAST \/ migrationAST = NoAST \/ StageInconclusive ) =>
        result = TextHeuristic(patternId, goldenDiff, migrationDiff)

C10_Witness ==
    /\ dpc = "detected"
    /\ patternId = "select-rewrite"
    /\ Applicable(patternId, goldenDiff)
    /\ migrationDiff # Null
    /\ goldenAST # NoAST /\ migrationAST # NoAST
    /\ detectWithAST(patternId, goldenAST, migrationAST) = Inconclusive
    /\ result = "CORRECT"

\* The members of DetectionStatus that a detector may return.
ReturnedStatuses == { "NOT_APPLICABLE", "FILE_MISSING", "CORRECT", "INCORRECT", "MISSING" }

\* C27: whatever the golden record, the candidate record (present or
\* absent) and the structured inputs, the outcome of a detector is one of
\* NOT_APPLICABLE, FILE_MISSING, CORRECT, INCORRECT, MISSING: never
\* UNNECESSARY.
C27_NeverUnnecessary == Detected => result \in ReturnedStatuses

C27_Witness ==
    /\ Detected
    /\ patternId = "space-items-removal"
    /\ ~Applicable(patternId, goldenDiff)
    /\ migrationDiff # Null
    /\ SomeLine(migrationDiff.removedLines, { "SPACE_ITEMS_RE" })
    /\ result = "NOT_APPLICABLE"

DetectIdle ==
    /\ patternId = "none" /\ goldenDiff = Null /\ migrationDiff = Null
    /\ goldenAST = NoAST /\ migrationAST = NoAST
    /\ result = "none" /\ dpc = "idle"

----------------------------------------------------------------------------
(* scoring/engine.ts                                                       *)
(*                                                                         *)
(* Numbers are exact rationals [n, d] in lowest terms with d > 0, so that  *)
(* equal numbers are equal records.  (The code computes in IEEE doubles,   *)
(* whose results differ from these by rounding errors below 1e-12.)        *)

RECURSIVE GCD(_, _)
GCD(a, b) == IF b = 0 THEN a ELSE GCD(b, a % b)

Abs(x) == IF x < 0 THEN 0 - x ELSE x

Rat(n, d) ==
    LET g == GCD(Abs(n), Abs(d))
    IN  IF d < 0 THEN [n |-> (0 - n) \div g, d |-> (0 - d) \div g]
        ELSE [n |-> n \div g, d |-> d \div g]

Zero == Rat(0, 1)
One  == Rat(1, 1)

RatAdd(a, b) == Rat(a.n * b.d + b.n * a.d, a.d * b.d)
RatSub(a, b) == Rat(a.n * b.d - b.n * a.d, a.d * b.d)
RatMul(a, b) == Rat(a.n * b.n, a.d * b.d)
RatDiv(a, b) == Rat(a.n * b.d, a.d * b.n)
RatLE(a, b)  == a.n * b.d <= b.n * a.d
RatMin(a, b) == IF RatLE(a, b) THEN a ELSE b

\* Math.round: the nearest integer, halves towards +infinity.
MathRound(a) == Rat((2 * a.n + a.d) \div (2 * a.d), 1)

\* CREDIT, and CREDIT[status] ?? 0
CREDIT ==
    [ s \in { "CORRECT", "INCORRECT", "MISSING", "FILE_MISSING" } |->
        CASE s = "CORRECT" -> Rat(1, 1)
          [] s = "INCORRECT" -> Rat(25, 100)
          [] s = "MISSING" -> Zero
          [] s = "FILE_MISSING" -> Zero ]

CreditOf(status) == IF status \in DOMAIN CREDIT THEN CREDIT[status] ELSE Zero

\* round that truncates instead of rounding to nearest.
round_Truncate(value) ==
    LET scaled == RatMul(value, Rat(100, 1))
    IN  RatDiv(Rat(scaled.n \div scaled.d, 1), Rat(100, 1))

\* round(value) = Math.round(value * 100) / 100
round(value) == RatDiv(MathRound(RatMul(value, Rat(100, 1))), Rat(100, 1))

\* computeFileCoverage with the extra files counted as golden files.
computeFileCoverage_CountsExtra(mr) ==
    LET goldenTotal == Len(mr.matched) + Len(mr.missedFiles) + Len(mr.extraFiles)
    IN  IF goldenTotal = 0 THEN One
        ELSE Rat(Len(mr.matched), goldenTotal)

computeFileCoverage(mr) ==
    LET goldenTotal == Len(mr.matched) + Len(mr.missedFiles)
    IN  IF goldenTotal = 0 THEN One
        ELSE Rat(Len(mr.matched), goldenTotal)

RECURSIVE PatternScoreLoop_CountsNA(_, _, _)
\* The loop without the NOT_APPLICABLE skip.
PatternScoreLoop_CountsNA(results, i, acc) ==
    IF i > Len(results) THEN acc
    ELSE LET credit == CreditOf(results[i].result.status)
             weight == Rat(results[i].weight, 1)
         IN  PatternScoreLoop_CountsNA(results, i + 1,
                [ weightedCredit   |-> RatAdd(acc.weightedCredit, RatMul(weight, credit)),
                  weightedExpected |-> RatAdd(acc.weightedExpected, RatMul(weight, One)) ])

RECURSIVE PatternScoreLoop(_, _, _)
\* for (const { result, weight } of results) { ... }   acc = [weightedCredit, weightedExpected]
PatternScoreLoop(results, i, acc) ==
    IF i > Len(results) THEN acc
    ELSE IF results[i].result.status = "NOT_APPLICABLE"
         THEN PatternScoreLoop(results, i + 1, acc)
    ELSE LET credit == CreditOf(results[i].result.status)
             weight == Rat(results[i].weight, 1)
         IN  PatternScoreLoop(results, i + 1,
                [ weightedCredit   |-> RatAdd(acc.weightedCredit, RatMul(weight, credit)),
                  weightedExpected |-> RatAdd(acc.weightedExpected, RatMul(weight, One)) ])

computePatternScore(results) ==
    LET acc == PatternScoreLoop(results, 1,
                                [ weightedCredit |-> Zero, weightedExpected |-> Zero ])
    IN  IF acc.weightedExpected = Zero THEN One
        ELSE RatDiv(acc.weightedCredit, acc.weightedExpected)

RECURSIVE TotalPenalty(_, _)
\* noiseInstances.reduce((sum, n) => sum + n.penalty, 0), over the first k instances
TotalPenalty(instances, k) ==
    IF k = 0 THEN Zero
    ELSE RatAdd(TotalPenalty(instances, k - 1), instances[k].penalty)

\* computeNoisePenalty without the ceiling.
computeNoisePenalty_Unclamped(instances) == TotalPenalty(instances, Len(instances))

computeNoisePenalty(instances) == RatMin(One, TotalPenalty(instances, Len(instances)))

\* The overall score with the penalty subtracted in full.
OverallScore_PenaltySubtracted(fileCoverage, patternScore, noisePenalty) ==
    RatSub(RatAdd(RatAdd(RatMul(Rat(20, 100), fileCoverage),
                         RatMul(Rat(65, 100), patternScore)),
                  Rat(15, 100)),
           noisePenalty)

\* The overallScore local of computeScore, on the 0-1 scale.
OverallScore(fileCoverage, patternScore, noisePenalty) ==
    RatAdd(RatAdd(RatMul(Rat(20, 100), fileCoverage),
                  RatMul(Rat(65, 100), patternScore)),
           RatMul(Rat(15, 100), RatSub(One, noisePenalty)))

\* computeScore with the overall score taken from the rounded components.
computeScore_FromRounded(input) ==
    LET fileCoverage == round(computeFileCoverage(input.matchResult))
        patternScore == round(computePatternScore(input.weightedResults))
        noisePenalty == round(computeNoisePenalty(input.noiseInstances))
        overallScore == OverallScore(fileCoverage, patternScore, noisePenalty)
    IN  [ overallScore |-> round(RatMul(overallScore, Rat(100, 1))),
          fileCoverage |-> round(RatMul(computeFileCoverage(input.matchResult), Rat(100, 1))),
          patternScore |-> round(RatMul(computePatternScore(input.weightedResults), Rat(100, 1))),
          noisePenalty |-> round(RatMul(computeNoisePenalty(input.noiseInstances), Rat(100, 1))) ]

computeScore(input) ==
    LET fileCoverage == computeFileCoverage(input.matchResult)
        patternScore == computePatternScore(input.weightedResults)
        noisePenalty == computeNoisePenalty(input.noiseInstances)
        overallScore == OverallScore(fileCoverage, patternScore, noisePenalty)
    IN  [ overallScore |-> round(RatMul(overallScore, Rat(100, 1))),
          fileCoverage |-> round(RatMul(fileCoverage, Rat(100, 1))),
          patternScore |-> round(RatMul(patternScore, Rat(100, 1))),
          noisePenalty |-> round(RatMul(noisePenalty, Rat(100, 1))) ]

\* PENALTY of scoring/noise-detector.ts, per NoiseInstance type.
PENALTY ==
    [ t \in { "unnecessary_change", "formatting_only", "incorrect_migration",
              "artifact", "placeholder_token" } |->
        CASE t = "unnecessary_change" -> Rat(1, 100)
          [] t = "formatting_only" -> Rat(2, 100)
          [] t = "incorrect_migration" -> Rat(3, 100)
          [] t = "artifact" -> Rat(5, 100)
          [] t = "placeholder_token" -> Rat(5, 100) ]

NoiseInstance(type, file) == [type |-> type, file |-> file, penalty |-> PENALTY[type]]

(* Inputs of computeScore. *)

MaxScoreFiles == 2
MaxResults == 2
MaxNoise == 21

makeDiff(role, i) == [id |-> <<role, i>>, filePath |-> <<"src", "/", "f.ts">>]

makeMatchResult(matchedCount, missedCount, extraCount) ==
    [ matched     |-> [ i \in 1..matchedCount |->
                          [golden |-> makeDiff("golden", i), migration |-> makeDiff("migration", i)] ],
      missedFiles |-> [ i \in 1..missedCount |-> makeDiff("missed", i) ],
      extraFiles  |-> [ i \in 1..extraCount |-> makeDiff("extra", i) ] ]

makeWeightedResult(status, weight) ==
    [ result |-> [patternId |-> "test-pattern", status |-> status], weight |-> weight ]

\* Outcomes given to scoring: every status and every weight occurs.
WeightedPool ==
    { makeWeightedResult("CORRECT", 1), makeWeightedResult("CORRECT", 3),
      makeWeightedResult("INCORRECT", 2),
      makeWeightedResult("MISSING", 1), makeWeightedResult("MISSING", 2),
      makeWeightedResult("FILE_MISSING", 3),
      makeWeightedResult("NOT_APPLICABLE", 1), makeWeightedResult("NOT_APPLICABLE", 3) }

\* Short noise lists: none, one instance, one of each of three kinds.
ShortNoiseLists ==
    { << >>,
      << NoiseInstance("artifact", "c.ts") >>,
      << NoiseInstance("unnecessary_change", "a.ts"),
         NoiseInstance("formatting_only", "b.ts"),
         NoiseInstance("incorrect_migration", "css-class-prefix") >> }

\* Runs of artifacts whose penalties add up to just below, exactly, and
\* above 1.0.
LongNoiseLists ==
    { [ i \in 1..n |-> NoiseInstance("artifact", "c.ts") ] :
        n \in { MaxNoise - 2, MaxNoise - 1, MaxNoise } }

NoScore == [ overallScore |-> Zero, fileCoverage |-> Zero,
             patternScore |-> Zero, noisePenalty |-> Zero ]

ScoreIdle ==
    /\ weightedResults = << >> /\ noiseInstances = << >>
    /\ scoreBreakdown = NoScore /\ spc = "idle"

ScoreInit ==
    /\ \E nm \in 0..MaxScoreFiles : \E ns \in 0..(MaxScoreFiles - nm) :
         \E ne \in { 0, MaxScoreFiles } :
            matchResult = makeMatchResult(nm, ns, ne)
    /\ \/ /\ weightedResults \in SeqsUpTo(WeightedPool, MaxResults)
          /\ noiseInstances \in ShortNoiseLists
       \/ /\ weightedResults \in SeqsUpTo(WeightedPool, 1)
          /\ noiseInstances \in LongNoiseLists
    /\ scoreBreakdown = NoScore
    /\ spc = "input"
    /\ goldenDiffs = << >> /\ migrationDiffs = << >> /\ mpc = "idle"

\* computeScore({ matchResult, weightedResults, noiseInstances })
ComputeScore ==
    /\ spc = "input"
    /\ scoreBreakdown' = computeScore([ matchResult     |-> matchResult,
                                        weightedResults |-> weightedResults,
                                        noiseInstances  |-> noiseInstances ])
    /\ spc' = "scored"
    /\ UNCHANGED << weightedResults, noiseInstances >>
    /\ UNCHANGED << matchVars, parseVars, detectVars, runVars >>

----------------------------------------------------------------------------
(* Scoring claims                                                          *)

Scored == spc = "scored"

Hundred == Rat(100, 1)
Percent(x) == RatMul(x, Hundred)

\* r is x rounded to two decimal places (halves upwards): a multiple of
\* 0.01 with r - 0.005 <= x < r + 0.005.
IsRounded2(r, x) ==
    /\ Percent(r).d = 1
    /\ RatLE(RatSub(r, Rat(1, 200)), x)
    /\ ~RatLE(RatAdd(r, Rat(1, 200)), x)

\* Credit of an outcome as the scoring rule states it.
StatedCredit(status) ==
    CASE status = "CORRECT" -> One
      [] status = "INCORRECT" -> Rat(1, 4)
      [] OTHER -> Zero

RECURSIVE GradedSum(_, _)
\* Sum over the outcomes not in state NOT_APPLICABLE of weight x credit
\* (withCredit) or of weight.
GradedSum(results, withCredit) ==
    IF results = << >> THEN Zero
    ELSE LET h == Head(results)
             w == Rat(h.weight, 1)
             term == IF h.result.status = "NOT_APPLICABLE" THEN Zero
                     ELSE IF withCredit THEN RatMul(w, StatedCredit(h.result.status))
                     ELSE w
         IN  RatAdd(term, GradedSum(Tail(results), withCredit))

StatedPatternScore(results) ==
    IF GradedSum(results, FALSE) = Zero THEN One
    ELSE RatDiv(GradedSum(results, TRUE), GradedSum(results, FALSE))

\* C13: the pattern score is the sum of weight x credit over the outcomes
\* not in state NOT_APPLICABLE divided by the sum of their weights (credit
\* 1 for CORRECT, 0.25 for INCORRECT, 0 for MISSING and FILE_MISSING), and
\* 1.0 when that denominator is zero.
C13_PatternScore ==
    Scored =>
        /\ computePatternScore(weightedResults) = StatedPatternScore(weightedResults)
        /\ IsRounded2(scoreBreakdown.patternScore, Percent(StatedPatternScore(weightedResults)))

C13_Witness ==
    /\ Scored
    /\ weightedResults = << makeWeightedResult("CORRECT", 3), makeWeightedResult("MISSING", 1) >>
    /\ scoreBreakdown.patternScore = Rat(75, 1)

\* The stated overall score on the 0-1 scale.
StatedOverall(fc, ps, np) ==
    RatAdd(RatAdd(RatMul(Rat(1, 5), fc), RatMul(Rat(13, 20), ps)),
           RatMul(Rat(3, 20), RatSub(One, np)))

\* C14: the overall score is 0.20 x fileCoverage + 0.65 x patternScore +
\* 0.15 x (1 - noisePenalty) of the unrounded components of the same input
\* (reported as a percentage with two decimals).
C14_OverallFormula ==
    Scored =>
        IsRounded2(scoreBreakdown.overallScore,
                   Percent(StatedOverall(computeFileCoverage(matchResult),
                                         computePatternScore(weightedResults),
                                         computeNoisePenalty(noiseInstances))))

C14_Witness ==
    /\ Scored
    /\ weightedResults = << makeWeightedResult("CORRECT", 1), makeWeightedResult("MISSING", 2) >>
    /\ Len(matchResult.matched) = 1 /\ Len(matchResult.missedFiles) = 0
    /\ noiseInstances = << >>
    /\ scoreBreakdown.overallScore = Rat(5667, 100)

RECURSIVE PenaltySum(_)
PenaltySum(instances) ==
    IF instances = << >> THEN Zero
    ELSE RatAdd(Head(instances).penalty, PenaltySum(Tail(instances)))

\* C15: the noise penalty is min(1.0, sum of the instances' penalties); it
\* never exceeds 1.0, and a list never has a lower penalty than any of its
\* prefixes (appending instances never lowers it).
C15_NoisePenalty ==
    Scored =>
        /\ computeNoisePenalty(noiseInstances) = RatMin(One, PenaltySum(noiseInstances))
        /\ RatLE(computeNoisePenalty(noiseInstances), One)
        /\ \A k \in 0..Len(noiseInstances) :
              RatLE(computeNoisePenalty(SubSeq(noiseInstances, 1, k)),
                    computeNoisePenalty(noiseInstances))
        /\ IsRounded2(scoreBreakdown.noisePenalty, Percent(RatMin(One, PenaltySum(noiseInstances))))

C15_Witness ==
    /\ Scored
    /\ Len(noiseInstances) = MaxNoise
    /\ ~RatLE(PenaltySum(noiseInstances), One)
    /\ scoreBreakdown.noisePenalty = Hundred

InRange(x) == RatLE(Zero, x) /\ RatLE(x, Hundred)

\* C16: each of the four numbers of the Score Breakdown lies in [0, 100],
\* for weights in {1, 2, 3}; noise alone never makes the overall score
\* negative.
C16_ScoresInRange ==
    Scored =>
        /\ InRange(scoreBreakdown.overallScore)
        /\ InRange(scoreBreakdown.fileCoverage)
        /\ InRange(scoreBreakdown.patternScore)
        /\ InRange(scoreBreakdown.noisePenalty)

C16_Witness ==
    /\ Scored
    /\ ~RatLE(PenaltySum(noiseInstances), One)
    /\ Len(matchResult.matched) = 0 /\ Len(matchResult.missedFiles) > 0
    /\ weightedResults = << makeWeightedResult("FILE_MISSING", 3) >>
    /\ scoreBreakdown.overallScore = Zero

\* The four 0-1 scale values of the current input.
UnitValues ==
    LET fc == computeFileCoverage(matchResult)
        ps == computePatternScore(weightedResults)
        np == computeNoisePenalty(noiseInstances)
    IN  [ overallScore |-> OverallScore(fc, ps, np), fileCoverage |-> fc,
          patternScore |-> ps, noisePenalty |-> np ]

ScoreFields == { "overallScore", "fileCoverage", "patternScore", "noisePenalty" }

\* C17 (as stated): each reported number is 100 times its 0-1 scale value
\* rounded to two decimal places, the rounding being done on the 0-1 scale.
C17_RoundedOnUnitScale ==
    Scored =>
        \A f \in ScoreFields :
            \E r \in { Rat(k, 100) : k \in 0..100 } :
                /\ IsRounded2(r, UnitValues[f])
                /\ scoreBreakdown[f] = Percent(r)

\* C17 (amended): each reported number is its 0-1 scale value times 100,
\* rounded to two decimal places on the 0-100 scale.
C17_RoundedOnPercentScale ==
    Scored =>
        \A f \in ScoreFields : IsRounded2(scoreBreakdown[f], Percent(UnitValues[f]))

C17_Witness ==
    /\ Scored
    /\ weightedResults = << makeWeightedResult("CORRECT", 1), makeWeightedResult("MISSING", 2) >>
    /\ scoreBreakdown.patternScore = Rat(3333, 100)

\* C18: file coverage is the matched-pair count divided by the matched-pair
\* count plus the missed count, 1.0 when that denominator is zero, and does
\* not depend on the extra files.
C18_FileCoverage ==
    Scored =>
        LET nm == Len(matchResult.matched)
            ns == Len(matchResult.missedFiles)
            stated == IF nm + ns = 0 THEN One ELSE Rat(nm, nm + ns)
        IN  /\ computeFileCoverage(matchResult) = stated
            /\ computeFileCoverage([matchResult EXCEPT !.extraFiles = << >>]) = stated
            /\ IsRounded2(scoreBreakdown.fileCoverage, Percent(stated))

C18_Witness ==
    /\ Scored
    /\ Len(matchResult.matched) = 1 /\ Len(matchResult.missedFiles) = 1
    /\ Len(matchResult.extraFiles) = MaxScoreFiles
    /\ scoreBreakdown.fileCoverage = Rat(50, 1)

\* No diff texts, no parse result, no report, no earlier run.
NoTexts  == [ golden |-> << >>, migration |-> << >> ]
NoParse  == [ golden |-> << >>, migration |-> << >> ]
NoReport == [ fileResults |-> << >>, patternBreakdown |-> << >>, noiseInstances |-> << >>,
              summary |-> NoScore ]
NoRun    == [ run |-> 0, weightedResults |-> << >>, scoreBreakdown |-> NoScore ]

RunIdle ==
    /\ calls = << >> /\ rpc = "idle"
    /\ texts = NoTexts /\ parsed = NoParse
    /\ fileResults = << >> /\ report = NoReport /\ previous = NoRun
    /\ registry = << >> /\ reglog = << >>
    /\ npc = "idle"

----------------------------------------------------------------------------
(* patterns/registry.ts                                                    *)

\* patterns.push(pattern), keeping only definitions not yet in the array.
registerPattern_Dedup(reg, pattern) ==
    IF pattern \in Range(reg) THEN reg ELSE Append(reg, pattern)

\* patterns.push(pattern)
registerPattern(reg, pattern) == Append(reg, pattern)

\* return [...patterns]: a new array with the elements of patterns.
getPatterns(reg) == [ i \in 1..Len(reg) |-> reg[i] ]

\* patterns.length = 0
clearPatterns(reg) == SubSeq(reg, 1, 0)

\* Bound: number of registry operations in a process's lifetime.
MaxOps == 4

\* The definitions a process registers, by id.
RegistryPool == { "css-class-prefix", "toolbar-gap" }

RegEntry(op, pattern, returned) == [ op |-> op, pattern |-> pattern, returned |-> returned ]

\* The variables a registry operation leaves alone.
registryFrame ==
    << matchVars, parseVars, detectVars, scoreVars,
       calls, rpc, texts, parsed, fileResults, report, previous, npc >>

RegisterPattern ==
    /\ Len(reglog) < MaxOps
    /\ \E p \in RegistryPool :
         /\ registry' = registerPattern(registry, p)
         /\ reglog' = Append(reglog, RegEntry("register", p, << >>))
    /\ UNCHANGED registryFrame

GetPatterns ==
    /\ Len(reglog) < MaxOps
    /\ reglog' = Append(reglog, RegEntry("get", "none", getPatterns(registry)))
    /\ UNCHANGED registry
    /\ UNCHANGED registryFrame

ClearPatterns ==
    /\ Len(reglog) < MaxOps
    /\ registry' = clearPatterns(registry)
    /\ reglog' = Append(reglog, RegEntry("clear", "none", << >>))
    /\ UNCHANGED registryFrame

(* Claims about the registry. *)

\* The position of the last clearPatterns among the first k operations,
\* 0 if there is none.
LastClear(k) ==
    LET clears == { j \in 1..k : reglog[j].op = "clear" }
    IN  IF clears = {} THEN 0 ELSE CHOOSE j \in clears : \A i \in clears : i <= j

\* The definitions registered by operations from + 1 .. to, in that order.
RegisteredBetween(from, to) ==
    LET idx == SortedSeq({ j \in (from + 1)..to : reglog[j].op = "register" })
    IN  [ i \in DOMAIN idx |-> reglog[idx[i]].pattern ]

\* C26: every getPatterns call returned the definitions registered since
\* the most recent clearPatterns before it (since process start if there
\* was none), in registration order; in particular a call made right
\* after clearPatterns returned the empty list.
C26_RegistrySinceClear ==
    \A k \in DOMAIN reglog :
        reglog[k].op = "get" =>
            /\ reglog[k].returned = RegisteredBetween(LastClear(k - 1), k - 1)
            /\ (k > 1 /\ reglog[k - 1].op = "clear") => reglog[k].returned = << >>

C26_Witness ==
    /\ Len(reglog) = 4
    /\ reglog[1].op = "register" /\ reglog[2].op = "clear"
    /\ reglog[3] = RegEntry("register", "toolbar-gap", << >>)
    /\ reglog[4] = RegEntry("get", "none", << "toolbar-gap" >>)

----------------------------------------------------------------------------
(* scoring/noise-detector.ts                                               *)

\* The regular expressions of the two pattern lists, by position.
PLACEHOLDER_PATTERNS ==
    { "PLACEHOLDER_PATTERNS[0]", "PLACEHOLDER_PATTERNS[1]", "PLACEHOLDER_PATTERNS[2]",
      "PLACEHOLDER_PATTERNS[3]", "PLACEHOLDER_PATTERNS[4]", "PLACEHOLDER_PATTERNS[5]" }

ARTIFACT_PATTERNS ==
    { "ARTIFACT_PATTERNS[0]", "ARTIFACT_PATTERNS[1]", "ARTIFACT_PATTERNS[2]",
      "ARTIFACT_PATTERNS[3]", "ARTIFACT_PATTERNS[4]" }

RECURSIVE Flatten(_)
\* instances.push(...list) for each list of ss in turn.
Flatten(ss) == IF ss = << >> THEN << >> ELSE Head(ss) \o Flatten(Tail(ss))

detectUnnecessaryChanges(mr) ==
    [ i \in DOMAIN mr.extraFiles |->
        NoiseInstance("unnecessary_change", mr.extraFiles[i].filePath) ]

\* l.content.replace(/\s+/g, '').trim() is the line's text field.  Two lists
\* of equal length agree position by position once sorted exactly when
\* every text occurs equally often in both.
isFormattingOnly(diff) ==
    LET removedNormalized == [ i \in DOMAIN diff.removedLines |-> diff.removedLines[i].text ]
        addedNormalized   == [ i \in DOMAIN diff.addedLines |-> diff.addedLines[i].text ]
        Occurs(s, t)      == Cardinality({ i \in DOMAIN s : s[i] = t })
    IN  IF Len(removedNormalized) # Len(addedNormalized) THEN FALSE
        ELSE \A t \in Range(removedNormalized) \cup Range(addedNormalized) :
                Occurs(removedNormalized, t) = Occurs(addedNormalized, t)

\* detectFormattingOnlyChanges without the test that skips a diff with no
\* changed lines.
detectFormattingOnlyChanges_NoSkip(mDiffs, mr) ==
    LET matchedMigrationPaths == { mr.matched[i].migration.filePath : i \in DOMAIN mr.matched }
        Flagged(diff) == diff.filePath \in matchedMigrationPaths /\ isFormattingOnly(diff)
        flagged == Filter(mDiffs, Flagged)
    IN  [ i \in DOMAIN flagged |-> NoiseInstance("formatting_only", flagged[i].filePath) ]

detectFormattingOnlyChanges(mDiffs, mr) ==
    LET matchedMigrationPaths == { mr.matched[i].migration.filePath : i \in DOMAIN mr.matched }
        Flagged(diff) ==
            /\ diff.filePath \in matchedMigrationPaths
            /\ ~(Len(diff.addedLines) = 0 /\ Len(diff.removedLines) = 0)
            /\ isFormattingOnly(diff)
        flagged == Filter(mDiffs, Flagged)
    IN  [ i \in DOMAIN flagged |-> NoiseInstance("formatting_only", flagged[i].filePath) ]

\* A string held in a file field, as a path: a pattern id has no separator
\* and is one atom.
AsPath(str) == << str >>

detectIncorrectMigrations(results) ==
    LET IsIncorrect(r) == r.status = "INCORRECT"
        incorrect      == Filter(results, IsIncorrect)
    IN  [ i \in DOMAIN incorrect |->
            NoiseInstance("incorrect_migration", AsPath(incorrect[i].patternId)) ]

\* An instance that names a line of its file.
LineNoiseInstance(type, file, line) ==
    [ type |-> type, file |-> file, line |-> line, penalty |-> PENALTY[type] ]

\* The loops without the break: one instance for each marker that matches.
LinePenalties_PerMarker(mDiffs, patternList, type) ==
    LET OfLine(diff, line) ==
            LET matching == SortedSeq(1..Cardinality(line.content \cap patternList))
            IN  [ k \in DOMAIN matching |-> LineNoiseInstance(type, diff.filePath, line.lineNumber) ]
        OfDiff(diff) == Flatten([ j \in DOMAIN diff.addedLines |-> OfLine(diff, diff.addedLines[j]) ])
    IN  Flatten([ i \in DOMAIN mDiffs |-> OfDiff(mDiffs[i]) ])

\* for (const diff of migrationDiffs) for (const line of diff.addedLines)
\*   for (const pattern of patternList) if (pattern.test(line.content)) { push; break }
LinePenalties(mDiffs, patternList, type) ==
    LET OfDiff(diff) ==
            LET Hit(line) == \E pattern \in patternList : pattern \in line.content
                hits      == Filter(diff.addedLines, Hit)
            IN  [ i \in DOMAIN hits |->
                    LineNoiseInstance(type, diff.filePath, hits[i].lineNumber) ]
    IN  Flatten([ i \in DOMAIN mDiffs |-> OfDiff(mDiffs[i]) ])

detectArtifacts(mDiffs) == LinePenalties(mDiffs, ARTIFACT_PATTERNS, "artifact")

detectPlaceholderTokens(mDiffs) ==
    LinePenalties(mDiffs, PLACEHOLDER_PATTERNS, "placeholder_token")

detectNoise(input) ==
    detectUnnecessaryChanges(input.matchResult)
      \o detectFormattingOnlyChanges(input.migrationDiffs, input.matchResult)
      \o detectIncorrectMigrations(input.detectionResults)
      \o detectArtifacts(input.migrationDiffs)
      \o detectPlaceholderTokens(input.migrationDiffs)

----------------------------------------------------------------------------
(* index.ts: one evaluation run, from the two diffs to the score.          *)

\* getPatterns(): the catalog in registration order, which is the order of
\* the driver's imports.
patterns ==
    << "css-class-prefix", "utility-class-rename", "css-logical-properties",
       "theme-dark-removal", "inner-ref-to-ref", "align-right-to-end",
       "is-action-cell", "space-items-removal", "ouia-component-id",
       "chips-to-labels", "split-button-items", "modal-import-path",
       "text-content-consolidation", "empty-state-restructure", "toolbar-variant",
       "toolbar-gap", "button-icon-prop", "page-section-variant", "page-masthead",
       "avatar-adoption", "react-tokens-icon-status", "select-rewrite",
       "masthead-reorganization", "test-selector-rewrite" >>

\* pattern.weight
PatternWeight(id) ==
    CASE id \in { "masthead-reorganization", "select-rewrite", "test-selector-rewrite" } -> 3
      [] id \in { "toolbar-gap", "button-icon-prop", "avatar-adoption", "page-masthead",
                  "react-tokens-icon-status", "toolbar-variant",
                  "text-content-consolidation", "page-section-variant",
                  "empty-state-restructure" } -> 2
      [] OTHER -> 1

RECURSIVE InsertByLineNumber(_, _, _)
\* x put into the sorted list s after every entry that compare(a, b) =
\* a.lineNumber - b.lineNumber does not place behind it.
InsertByLineNumber(s, x, i) ==
    IF i > Len(s) \/ s[i].lineNumber > x.lineNumber
    THEN SubSeq(s, 1, i - 1) \o << x >> \o SubSeq(s, i, Len(s))
    ELSE InsertByLineNumber(s, x, i + 1)

RECURSIVE SortLoop(_, _, _)
SortLoop(lines, i, sorted) ==
    IF i > Len(lines) THEN sorted
    ELSE SortLoop(lines, i + 1, InsertByLineNumber(sorted, lines[i], 1))

\* A sort that leaves the largest line number first.
SortByLineNumber_Descending(lines) ==
    LET ascending == SortLoop(lines, 1, << >>)
    IN  [ i \in DOMAIN ascending |-> ascending[Len(ascending) + 1 - i] ]

\* addedLines.sort((a, b) => a.lineNumber - b.lineNumber): Array.prototype.sort
\* is stable and sorts the array it is called on.
SortByLineNumber(lines) == SortLoop(lines, 1, << >>)

\* The record after reconstructContentFromDiff has sorted its addedLines.
Analyzed(diff) == [ diff EXCEPT !.addedLines = SortByLineNumber(@) ]

\* analyzeFileDiff: the JSX elements of the added lines, in the order the
\* sort leaves them.
analyzeFileDiff(diff) ==
    LET lines == Analyzed(diff).addedLines
    IN  AST(Flatten([ i \in DOMAIN lines |-> lines[i].jsx ]))

\* for (const pattern of patterns) { const result = pattern.detect(...); ... }
\* with patterns = getPatterns().  Each turn yields the call made and the
\* entry pushed to allWeightedResults.
PatternLoop(golden, migration, gAST, mAST) ==
    LET catalog == getPatterns(registry)
    IN  [ k \in DOMAIN catalog |->
            [ call     |-> [ patternId |-> catalog[k],
                             golden    |-> golden.id,
                             migration |-> IF migration = Null THEN << >> ELSE migration.id ],
              weighted |-> [ result |-> [ patternId |-> catalog[k],
                                          status    |-> detect(catalog[k], golden, migration,
                                                               gAST, mAST) ],
                             weight |-> PatternWeight(catalog[k]) ] ] ]

\* for (const { golden, migration } of matchResult.matched) { ... }: both
\* records are analyzed, and so sorted, before the detectors see them.
MatchedLoop(matched) ==
    Flatten([ i \in DOMAIN matched |->
                PatternLoop(Analyzed(matched[i].golden), Analyzed(matched[i].migration),
                            analyzeFileDiff(matched[i].golden),
                            analyzeFileDiff(matched[i].migration)) ])

MissedLoop_Skipped(missedFiles) == << >>

\* for (const goldenDiff of matchResult.missedFiles) { ... }
MissedLoop(missedFiles) ==
    Flatten([ i \in DOMAIN missedFiles |->
                PatternLoop(Analyzed(missedFiles[i]), Null,
                            analyzeFileDiff(missedFiles[i]), NoAST) ])

\* The match result once both loops have analyzed its records, and a diff
\* list whose records with an id in ids have been analyzed: a record of the
\* match result is the same object as the record of the list.
AnalyzedMatch(mr) ==
    [ matched     |-> [ i \in DOMAIN mr.matched |->
                          [ golden    |-> Analyzed(mr.matched[i].golden),
                            migration |-> Analyzed(mr.matched[i].migration) ] ],
      missedFiles |-> [ i \in DOMAIN mr.missedFiles |-> Analyzed(mr.missedFiles[i]) ],
      extraFiles  |-> mr.extraFiles ]

AnalyzedIds(mr) ==
    { mr.matched[i].golden.id : i \in DOMAIN mr.matched }
      \cup { mr.matched[i].migration.id : i \in DOMAIN mr.matched }
      \cup { mr.missedFiles[i].id : i \in DOMAIN mr.missedFiles }

AnalyzedList(diffs, ids) ==
    [ i \in DOMAIN diffs |-> IF diffs[i].id \in ids THEN Analyzed(diffs[i]) ELSE diffs[i] ]

\* fileResults.push({ filePath: golden.filePath, detections: fileDetections,
\* noiseInstances: [] }), once per matched pair.
MatchedFileResults(matched, turns) ==
    LET n == Len(getPatterns(registry))
    IN  [ i \in DOMAIN matched |->
            [ filePath       |-> matched[i].golden.filePath,
              detections     |-> [ k \in 1..n |-> turns[(i - 1) * n + k].weighted.result ],
              noiseInstances |-> << >> ] ]

\* for (const noise of noiseInstances) { const fr = fileResults.find(f =>
\* f.filePath === noise.file); if (fr) fr.noiseInstances.push(noise); }
AssignNoise(frs, noise) ==
    [ k \in DOMAIN frs |->
        LET IsFirst  == \A j \in 1..(k - 1) : frs[j].filePath # frs[k].filePath
            Mine(ni) == IsFirst /\ ni.file = frs[k].filePath
        IN  [ frs[k] EXCEPT !.noiseInstances = @ \o Filter(noise, Mine) ] ]

(* Inputs of a run.  A changed line carries its source text (raw), the    *)
(* text without white space (text), the regular expressions of the        *)
(* detectors and of the noise detector that match it (content), and the   *)
(* JSX elements ts-morph finds on it (jsx).                                *)

RunLine(raw, text, content, jsx) ==
    [ raw |-> raw, text |-> text, content |-> content, jsx |-> jsx ]

pf5Line == RunLine("  <div className=\"pf-v5-c-card\">", "<divclassName=\"pf-v5-c-card\">",
                   { "PF5_CLASS_RE", "PF5_CLASS_SELECTOR_RE" }, << JSX("div", { "className" }) >>)
pf6Line == RunLine("  <div className=\"pf-v6-c-card\">", "<divclassName=\"pf-v6-c-card\">",
                   { "PF6_CLASS_RE", "PF6_CLASS_SELECTOR_RE" }, << JSX("div", { "className" }) >>)
logLine == RunLine("  console.log(value);", "console.log(value);",
                   { "ARTIFACT_PATTERNS[0]" }, << >>)
oneLine == RunLine("const total = count + 1;", "consttotal=count+1;", {}, << >>)
twoLine == RunLine("const total = count + 2;", "consttotal=count+2;", {}, << >>)
wideLine == RunLine("const total  =  count + 1;", "consttotal=count+1;", {}, << >>)
moreLine == RunLine("const extra = total;", "constextra=total;", {}, << >>)
oldHash == RunLine("  \"integrity\": \"sha512-ab+cd/ef==\",", "\"integrity\":\"sha512-ab+cd/ef==\",",
                   {}, << >>)
newHash == RunLine("  \"integrity\": \"sha512-gh+ij/kl==\",", "\"integrity\":\"sha512-gh+ij/kl==\",",
                   {}, << >>)
xxxHash == RunLine("  \"integrity\": \"sha512-ab+XXX/cd==\",", "\"integrity\":\"sha512-ab+XXX/cd==\",",
                   { "PLACEHOLDER_PATTERNS[5]" }, << >>)

RunDiffLines(ls) == [ i \in DOMAIN ls |-> [ lineNumber |-> i ] @@ ls[i] ]

\* The changes a file may carry: the migration of a class prefix, the old
\* class replaced by a logging call, an edit no detector knows, a change
\* of white space only, an edit that adds two lines, and two changes of a
\* lockfile hash, the second to
\* a hash that contains XXX between two non-word characters.
Body(kind) ==
    CASE kind = "migrated" -> [ removedLines |-> RunDiffLines(<< pf5Line >>),
                                addedLines   |-> RunDiffLines(<< pf6Line >>) ]
      [] kind = "logged"   -> [ removedLines |-> RunDiffLines(<< pf5Line >>),
                                addedLines   |-> RunDiffLines(<< logLine >>) ]
      [] kind = "edited"   -> [ removedLines |-> RunDiffLines(<< oneLine >>),
                                addedLines   |-> RunDiffLines(<< twoLine >>) ]
      [] kind = "spaced"   -> [ removedLines |-> RunDiffLines(<< oneLine >>),
                                addedLines   |-> RunDiffLines(<< wideLine >>) ]
      [] kind = "grown"    -> [ removedLines |-> RunDiffLines(<< oneLine >>),
                                addedLines   |-> RunDiffLines(<< twoLine, moreLine >>) ]
      [] kind = "rehashed" -> [ removedLines |-> RunDiffLines(<< oldHash >>),
                                addedLines   |-> RunDiffLines(<< newHash >>) ]
      [] kind = "relocked" -> [ removedLines |-> RunDiffLines(<< oldHash >>),
                                addedLines   |-> RunDiffLines(<< xxxHash >>) ]

\* Bound: number of FileDiff records in each diff of a run.
MaxRunFiles == 2

\* The files of a tree, in path order, each with the changes it may carry.
RunFilePool ==
    << [ filePath |-> << "package-lock.json" >>, kind |-> "rehashed" ],
       [ filePath |-> << "package-lock.json" >>, kind |-> "relocked" ],
       [ filePath |-> << "src", "/", "App.tsx" >>, kind |-> "migrated" ],
       [ filePath |-> << "src", "/", "App.tsx" >>, kind |-> "logged" ],
       [ filePath |-> << "src", "/", "App.tsx" >>, kind |-> "edited" ],
       [ filePath |-> << "src", "/", "App.tsx" >>, kind |-> "spaced" ],
       [ filePath |-> << "src", "/", "Nav.tsx" >>, kind |-> "migrated" ],
       [ filePath |-> << "src", "/", "Nav.tsx" >>, kind |-> "grown" ],
       [ filePath |-> << "src", "/", "g.snap" >>, kind |-> "logged" ] >>

\* The diffs of one tree: at most n files of the pool, no path twice, in
\* path order.
RunDiffsUpTo(side, n) ==
    { LET idx == SortedSeq(S)
      IN  [ i \in DOMAIN idx |->
              [ id |-> << side, i >>, filePath |-> RunFilePool[idx[i]].filePath ]
                @@ Body(RunFilePool[idx[i]].kind) ] :
      S \in { T \in SUBSET DOMAIN RunFilePool :
                /\ Cardinality(T) <= n
                /\ \A i, j \in T : i # j => RunFilePool[i].filePath # RunFilePool[j].filePath } }

RunDiffs(side) == RunDiffsUpTo(side, MaxRunFiles)

RECURSIVE Loaded(_)
\* The registry after the first k detector modules have been imported:
\* each module calls registerPattern(pattern) when it is loaded.
Loaded(k) == IF k = 0 THEN << >> ELSE registerPattern(Loaded(k - 1), patterns[k])

\* A process that has loaded the detector modules and parsed the two
\* diffs, with at most n files each.
RunInitUpTo(n) ==
    /\ goldenDiffs \in RunDiffsUpTo("golden", n)
    /\ migrationDiffs \in RunDiffsUpTo("migration", n)
    /\ parsed = [ golden |-> goldenDiffs, migration |-> migrationDiffs ]
    /\ texts = NoTexts
    /\ matchResult = NoMatchResult /\ mpc = "idle"
    /\ ScoreIdle
    /\ calls = << >>
    /\ fileResults = << >> /\ report = NoReport /\ previous = NoRun
    /\ registry = Loaded(Len(patterns)) /\ reglog = << >>
    /\ npc = "idle"
    /\ rpc = "input"

RunInit == RunInitUpTo(MaxRunFiles)

\* Bound: number of FileDiff records in each diff of a process that
\* evaluates twice.
MaxRerunFiles == 1

RerunInit == RunInitUpTo(MaxRerunFiles)

\* Step 2: const matchResult = matchFiles(goldenDiffs, migrationDiffs)
RunMatch ==
    /\ rpc = "input"
    /\ matchResult' = matchFiles(goldenDiffs, migrationDiffs)
    /\ rpc' = "matched"
    /\ UNCHANGED << goldenDiffs, migrationDiffs, mpc >>
    /\ UNCHANGED << parseVars, detectVars, scoreVars >>
    /\ UNCHANGED << calls, texts, parsed, fileResults, report, previous, registry, reglog, npc >>

\* Step 3: the loop over the matched pairs, then the loop over the missed
\* files.  allDetectionResults holds the result of each entry of
\* allWeightedResults, in the same order.  The records the loops analyze
\* are the objects of the two diff lists.
RunDetect ==
    /\ rpc = "matched"
    /\ LET turns == MatchedLoop(matchResult.matched) \o MissedLoop(matchResult.missedFiles)
       IN  /\ calls' = [ i \in DOMAIN turns |-> turns[i].call ]
           /\ weightedResults' = [ i \in DOMAIN turns |-> turns[i].weighted ]
           /\ fileResults' = MatchedFileResults(matchResult.matched, turns)
    /\ goldenDiffs' = AnalyzedList(goldenDiffs, AnalyzedIds(matchResult))
    /\ migrationDiffs' = AnalyzedList(migrationDiffs, AnalyzedIds(matchResult))
    /\ matchResult' = AnalyzedMatch(matchResult)
    /\ rpc' = "detected"
    /\ UNCHANGED << mpc, parseVars, detectVars, noiseInstances, scoreBreakdown, spc >>
    /\ UNCHANGED << texts, parsed, report, previous, registry, reglog, npc >>

allDetectionResults == [ i \in DOMAIN weightedResults |-> weightedResults[i].result ]

\* Step 4: const noiseInstances = detectNoise({ ... }), and the loop that
\* assigns the instances to the file results.
RunNoise ==
    /\ rpc = "detected"
    /\ noiseInstances' = detectNoise([ matchResult      |-> matchResult,
                                       migrationDiffs   |-> migrationDiffs,
                                       detectionResults |-> allDetectionResults ])
    /\ fileResults' = AssignNoise(fileResults, noiseInstances')
    /\ rpc' = "noise"
    /\ UNCHANGED << matchVars, parseVars, detectVars, weightedResults, scoreBreakdown, spc >>
    /\ UNCHANGED << calls, texts, parsed, report, previous, registry, reglog, npc >>

\* Step 5: const scoreBreakdown = computeScore({ ... })
RunScore ==
    /\ rpc = "noise"
    /\ scoreBreakdown' = computeScore([ matchResult     |-> matchResult,
                                        weightedResults |-> weightedResults,
                                        noiseInstances  |-> noiseInstances ])
    /\ rpc' = "scored"
    /\ UNCHANGED << matchVars, parseVars, detectVars, weightedResults, noiseInstances, spc >>
    /\ UNCHANGED << calls, texts, parsed, fileResults, report, previous, registry, reglog, npc >>

\* Step 6: const report: EvalReport = { ... }
RunReport ==
    /\ rpc = "scored"
    /\ report' = [ summary          |-> scoreBreakdown,
                   fileResults      |-> fileResults,
                   patternBreakdown |-> allDetectionResults,
                   noiseInstances   |-> noiseInstances ]
    /\ rpc' = "reported"
    /\ UNCHANGED << matchVars, parseVars, detectVars, scoreVars >>
    /\ UNCHANGED << calls, texts, parsed, fileResults, previous, registry, reglog, npc >>

\* The process is asked for a second evaluation of the same two diff
\* texts, and the detector modules are registered once more.
RunAgain_Reload ==
    /\ rpc = "reported" /\ previous.run = 0
    /\ previous' = [ run |-> 1, weightedResults |-> weightedResults,
                     scoreBreakdown |-> scoreBreakdown ]
    /\ goldenDiffs' = parsed.golden /\ migrationDiffs' = parsed.migration
    /\ matchResult' = NoMatchResult
    /\ weightedResults' = << >> /\ noiseInstances' = << >> /\ scoreBreakdown' = NoScore
    /\ calls' = << >> /\ fileResults' = << >> /\ report' = NoReport
    /\ registry' = registry \o Loaded(Len(patterns))
    /\ rpc' = "input"
    /\ UNCHANGED << mpc, spc, parseVars, detectVars, texts, parsed, reglog, npc >>

\* The process is asked for a second evaluation of the same two diff
\* texts: the action parses them again; the detector modules, already
\* loaded, are not evaluated again and the registry stays as it is.
RunAgain ==
    /\ rpc = "reported" /\ previous.run = 0
    /\ previous' = [ run |-> 1, weightedResults |-> weightedResults,
                     scoreBreakdown |-> scoreBreakdown ]
    /\ goldenDiffs' = parsed.golden /\ migrationDiffs' = parsed.migration
    /\ matchResult' = NoMatchResult
    /\ weightedResults' = << >> /\ noiseInstances' = << >> /\ scoreBreakdown' = NoScore
    /\ calls' = << >> /\ fileResults' = << >> /\ report' = NoReport
    /\ rpc' = "input"
    /\ UNCHANGED << mpc, spc, parseVars, detectVars, texts, parsed, registry, reglog, npc >>

\* The score of a run on the two diffs: steps 2 to 5 in one piece.
Evaluate(gDiffs, mDiffs) ==
    LET mr      == matchFiles(gDiffs, mDiffs)
        turns   == MatchedLoop(mr.matched) \o MissedLoop(mr.missedFiles)
        noise   == detectNoise([ matchResult      |-> AnalyzedMatch(mr),
                                 migrationDiffs   |-> AnalyzedList(mDiffs, AnalyzedIds(mr)),
                                 detectionResults |-> [ i \in DOMAIN turns |->
                                                          turns[i].weighted.result ] ])
    IN  computeScore([ matchResult     |-> mr,
                       weightedResults |-> [ i \in DOMAIN turns |-> turns[i].weighted ],
                       noiseInstances  |-> noise ])

(* detectNoise on its own: inputs and claims.                              *)

\* Bounds: added lines of the first candidate file, and candidate files.
MaxNoiseLines == 2
MaxNoiseFiles == 2

plainLine == RunLine("const x = 1;", "constx=1;", {}, << >>)
widerLine == RunLine("const  x  =  1;", "constx=1;", {}, << >>)
otherLine == RunLine("const y = 2;", "consty=2;", {}, << >>)
todoLine  == RunLine("// TODO debugger", "//TODOdebugger",
                     { "ARTIFACT_PATTERNS[2]", "ARTIFACT_PATTERNS[4]" }, << >>)
bothLine  == RunLine("console.log(x); // FIXME", "console.log(x);//FIXME",
                     { "ARTIFACT_PATTERNS[0]", "PLACEHOLDER_PATTERNS[3]" }, << >>)

NoiseLinePool == { plainLine, widerLine, otherLine, todoLine, bothLine }

NoiseRecord(path, removed, added) ==
    [ id |-> << "migration", path >>, filePath |-> path,
      removedLines |-> RunDiffLines(removed), addedLines |-> RunDiffLines(added) ]

\* The golden record of a matched file; detectNoise does not read its lines.
GoldenOf(d) == [ d EXCEPT !.id = << "golden", d.filePath >>,
                          !.removedLines = << >>, !.addedLines = << >> ]

\* The first candidate file: matched or extra at src/a.ts, or an excluded
\* snapshot.
FirstNoiseFiles ==
    { [ matched |-> role = "matched",
        record  |-> NoiseRecord(IF role = "excluded" THEN << "src", "/", "g.snap" >>
                                ELSE << "src", "/", "a.ts" >>, removed, added) ] :
        role \in { "matched", "extra", "excluded" },
        removed \in { << >>, << plainLine >>, << plainLine, otherLine >> },
        added \in SeqsUpTo(NoiseLinePool, MaxNoiseLines) }

\* Further candidate files: a matched file changed in white space only, and
\* an extra file with a marked line.
OtherNoiseFiles ==
    << [ matched |-> TRUE,
         record  |-> NoiseRecord(<< "src", "/", "b.ts" >>, << plainLine >>, << widerLine >>) ],
       [ matched |-> FALSE,
         record  |-> NoiseRecord(<< "src", "/", "c.ts" >>, << >>, << otherLine, todoLine >>) ] >>

OtherNoiseLists ==
    { q \in SeqsUpTo(Range(OtherNoiseFiles), MaxNoiseFiles - 1) :
        \A i, j \in DOMAIN q : i # j => q[i] # q[j] }

\* The Detection Outcomes handed to detectNoise.
NoiseResultLists ==
    { << >>,
      << makeWeightedResult("CORRECT", 1), makeWeightedResult("INCORRECT", 2),
         makeWeightedResult("INCORRECT", 1) >> }

NoiseInit ==
    /\ \E first \in FirstNoiseFiles : \E others \in OtherNoiseLists :
         LET candidates == << first >> \o others
             IsMatched(c) == c.matched
             paired     == Filter(candidates, IsMatched)
         IN  /\ migrationDiffs = [ i \in DOMAIN candidates |-> candidates[i].record ]
             /\ goldenDiffs = [ i \in DOMAIN paired |-> GoldenOf(paired[i].record) ]
    /\ matchResult = matchFiles(goldenDiffs, migrationDiffs)
    /\ mpc = "idle"
    /\ weightedResults \in NoiseResultLists
    /\ noiseInstances = << >> /\ scoreBreakdown = NoScore /\ spc = "idle"
    /\ calls = << >> /\ rpc = "idle"
    /\ texts = NoTexts /\ parsed = NoParse
    /\ fileResults = << >> /\ report = NoReport /\ previous = NoRun
    /\ registry = << >> /\ reglog = << >>
    /\ npc = "input"

\* const noiseInstances = detectNoise({ matchResult, migrationDiffs, detectionResults })
ScanNoise ==
    /\ npc = "input"
    /\ noiseInstances' = detectNoise([ matchResult      |-> matchResult,
                                       migrationDiffs   |-> migrationDiffs,
                                       detectionResults |-> allDetectionResults ])
    /\ npc' = "scanned"
    /\ UNCHANGED << matchVars, parseVars, detectVars, weightedResults, scoreBreakdown, spc >>
    /\ UNCHANGED << calls, rpc, texts, parsed, fileResults, report, previous, registry, reglog >>

Scanned == npc = "scanned"

\* The instances of a category that name file path.
InstancesOf(type, path) ==
    { i \in DOMAIN noiseInstances :
        noiseInstances[i].type = type /\ noiseInstances[i].file = path }

IsMatchedCandidate(d) ==
    \E i \in DOMAIN matchResult.matched : matchResult.matched[i].migration = d

\* The bijections of 1..n.
Rearrangements(n) ==
    { p \in [ 1..n -> 1..n ] : \A i, j \in 1..n : p[i] = p[j] => i = j }

\* The removed lines and the added lines of d are the same collection once
\* white space is deleted and both are sorted: one is a rearrangement of
\* the other.
SameWithoutWhitespace(d) ==
    /\ Len(d.removedLines) = Len(d.addedLines)
    /\ \E p \in Rearrangements(Len(d.removedLines)) :
         \A i \in DOMAIN d.removedLines : d.removedLines[i].text = d.addedLines[p[i]].text

HasChangedLines(d) == Len(d.addedLines) > 0 \/ Len(d.removedLines) > 0

\* C21 as stated: detectNoise emits exactly one formatting_only instance
\* for every matched candidate record whose removed and added contents are
\* the same collection after deleting white space and sorting, and none for
\* any other candidate record.
C21_FormattingOnly ==
    Scanned =>
        \A d \in Range(migrationDiffs) :
            Cardinality(InstancesOf("formatting_only", d.filePath))
                = IF IsMatchedCandidate(d) /\ SameWithoutWhitespace(d) THEN 1 ELSE 0

\* C21, amended: the same rule, for matched candidate records with at least
\* one changed line; a record without changed lines gets no instance.
C21_FormattingOnlyOfChanged ==
    Scanned =>
        /\ \A d \in Range(migrationDiffs) :
             Cardinality(InstancesOf("formatting_only", d.filePath))
                 = IF IsMatchedCandidate(d) /\ HasChangedLines(d) /\ SameWithoutWhitespace(d)
                   THEN 1 ELSE 0
        /\ \A i \in DOMAIN noiseInstances :
             noiseInstances[i].type = "formatting_only"
                 => \E d \in Range(migrationDiffs) : noiseInstances[i].file = d.filePath

C21_Witness ==
    /\ Scanned
    /\ \E d \in Range(migrationDiffs) :
         /\ IsMatchedCandidate(d)
         /\ Len(d.removedLines) = 2 /\ Len(d.addedLines) = 2
         /\ d.addedLines[1].text = d.removedLines[2].text
         /\ d.addedLines[1].text # d.addedLines[2].text
         /\ d.addedLines[2].raw # d.removedLines[1].raw
         /\ Cardinality(InstancesOf("formatting_only", d.filePath)) = 1

\* The instances of a category that name line number n of file path.
LineInstancesOf(type, path, n) ==
    { i \in InstancesOf(type, path) : noiseInstances[i].line = n }

\* C22: for every added line of every candidate record there is exactly
\* one artifact instance if the line matches at least one artifact marker
\* and none otherwise, and exactly one placeholder_token instance if it
\* matches at least one placeholder marker and none otherwise; there are
\* no other instances of the two categories.
C22_OnePerLine ==
    Scanned =>
        LET Rule(type, patternList) ==
              /\ \A d \in Range(migrationDiffs) : \A j \in DOMAIN d.addedLines :
                   Cardinality(LineInstancesOf(type, d.filePath, d.addedLines[j].lineNumber))
                       = IF d.addedLines[j].content \cap patternList # {} THEN 1 ELSE 0
              /\ \A i \in DOMAIN noiseInstances :
                   noiseInstances[i].type = type =>
                       \E d \in Range(migrationDiffs) : \E j \in DOMAIN d.addedLines :
                           /\ noiseInstances[i].file = d.filePath
                           /\ noiseInstances[i].line = d.addedLines[j].lineNumber
        IN  /\ Rule("artifact", ARTIFACT_PATTERNS)
            /\ Rule("placeholder_token", PLACEHOLDER_PATTERNS)

C22_Witness ==
    /\ Scanned
    /\ \E d \in Range(migrationDiffs) : \E j \in DOMAIN d.addedLines :
         /\ Cardinality(d.addedLines[j].content \cap ARTIFACT_PATTERNS) = 2
         /\ Cardinality(LineInstancesOf("artifact", d.filePath, d.addedLines[j].lineNumber)) = 1
    /\ \E d \in Range(migrationDiffs) : \E j \in DOMAIN d.addedLines :
         /\ d.addedLines[j].content \cap ARTIFACT_PATTERNS # {}
         /\ d.addedLines[j].content \cap PLACEHOLDER_PATTERNS # {}
         /\ Cardinality(LineInstancesOf("artifact", d.filePath, d.addedLines[j].lineNumber)) = 1
         /\ Cardinality(LineInstancesOf("placeholder_token", d.filePath,
                                        d.addedLines[j].lineNumber)) = 1

\* C23: the file field of every Noise Instance of every category is the
\* path of a record of the candidate list.
C23_FileIsCandidatePath ==
    Scanned =>
        \A i \in DOMAIN noiseInstances :
            \E d \in Range(migrationDiffs) : noiseInstances[i].file = d.filePath

(* Claims about a run. *)

RunDetected == rpc \in { "detected", "noise", "scored", "reported" }
RunScored   == rpc \in { "scored", "reported" }

\* How often detector id was invoked with golden record g and candidate
\* record m (<< >> for an absent candidate).
CallsFor(id, g, m) ==
    Cardinality({ i \in DOMAIN calls :
                    calls[i] = [ patternId |-> id, golden |-> g, migration |-> m ] })

\* The records the matcher leaves out: those whose path is on the denylist.
ExcludedRecords ==
    { d \in Range(goldenDiffs) \cup Range(migrationDiffs) : isExcluded(d.filePath) }

\* C11: once detection has run, every detector of the catalog has been
\* invoked exactly once for each matched pair, with the golden and the
\* candidate record of that pair, and exactly once for each missed golden
\* record, with an absent candidate; no invocation has an extra or an
\* excluded record; and the number of invocations, which is the number of
\* weighted outcomes, is |catalog| x (|matched| + |missed|).
C11_DetectorCalls ==
    RunDetected =>
        LET matched == matchResult.matched
            missed  == matchResult.missedFiles
            skipped == { d.id : d \in ExcludedRecords \cup Range(matchResult.extraFiles) }
            total   == Cardinality(PatternIds) * (Len(matched) + Len(missed))
        IN  /\ \A id \in PatternIds :
                 /\ \A i \in DOMAIN matched :
                      CallsFor(id, matched[i].golden.id, matched[i].migration.id) = 1
                 /\ \A i \in DOMAIN missed : CallsFor(id, missed[i].id, << >>) = 1
            /\ \A i \in DOMAIN calls :
                 calls[i].golden \notin skipped /\ calls[i].migration \notin skipped
            /\ Len(calls) = total
            /\ Len(weightedResults) = total
            /\ \A i \in DOMAIN calls : weightedResults[i].result.patternId = calls[i].patternId

C11_Witness ==
    /\ RunDetected
    /\ Len(matchResult.matched) = 1 /\ Len(matchResult.missedFiles) = 1
    /\ \E d \in ExcludedRecords : d \in Range(migrationDiffs)
    /\ Len(calls) = 2 * Cardinality(PatternIds)

\* C12: at the end of a run, a golden or candidate record whose path is on
\* the denylist is in none of the three collections of the match result,
\* no Noise Instance names its file, and the Score Breakdown is the one
\* of the run on the two diffs without the excluded records.
C12_ExcludedHasNoEffect ==
    RunScored =>
        LET NotExcluded(d) == ~isExcluded(d.filePath)
            counted == { matchResult.matched[i].golden.id : i \in DOMAIN matchResult.matched }
                         \cup { matchResult.matched[i].migration.id :
                                  i \in DOMAIN matchResult.matched }
                         \cup { d.id : d \in Range(matchResult.missedFiles) }
                         \cup { d.id : d \in Range(matchResult.extraFiles) }
        IN  /\ \A d \in ExcludedRecords :
                 /\ d.id \notin counted
                 /\ \A i \in DOMAIN noiseInstances :
                      noiseInstances[i].type # "incorrect_migration"
                        => noiseInstances[i].file # d.filePath
            /\ scoreBreakdown = Evaluate(Filter(goldenDiffs, NotExcluded),
                                         Filter(migrationDiffs, NotExcluded))

\* The candidate diff is the golden diff: the same files with the same
\* changed lines.
SameChanges(d, e) ==
    /\ d.filePath = e.filePath
    /\ d.removedLines = e.removedLines
    /\ d.addedLines = e.addedLines

GoldenVsItself ==
    /\ Len(goldenDiffs) = Len(migrationDiffs)
    /\ \A i \in DOMAIN goldenDiffs : SameChanges(goldenDiffs[i], migrationDiffs[i])

\* C19: a run whose candidate diff equals its golden diff ends with an
\* overall score of 100.
C19_GoldenVsItselfIsPerfect ==
    (RunScored /\ GoldenVsItself) => scoreBreakdown.overallScore = Hundred

C24_RecordsUnchanged ==
    rpc \in { "matched", "detected", "noise", "scored", "reported" }
        => /\ goldenDiffs = parsed.golden
           /\ migrationDiffs = parsed.migration
           /\ matchResult = matchFiles(parsed.golden, parsed.migration)

\* A finished run that analyzed a matched pair whose records have two added
\* lines each, and a missed record.
C24_Witness ==
    /\ rpc = "reported"
    /\ \E i \in DOMAIN matchResult.matched :
         /\ Len(matchResult.matched[i].golden.addedLines) = 2
         /\ Len(matchResult.matched[i].migration.addedLines) = 2
    /\ Len(matchResult.missedFiles) = 1

\* C30: every outcome of the report's patternBreakdown is in the detections
\* of exactly one per-file result: the detections of the file results, one
\* file after the other, are the patternBreakdown.
C30_OutcomeInOneFileResult ==
    rpc = "reported"
        => Flatten([ i \in DOMAIN report.fileResults |-> report.fileResults[i].detections ])
             = report.patternBreakdown

MaxTextFiles == 2

\* Repository-relative paths of the files a diff text may name, in path
\* order; among them a file inside a top-level directory named a or b.
RepoPathPool ==
    << << "a", "/", "b", "/", "f.ts" >>,
       << "a", "/", "f.ts" >>,
       << "b", "/", "f.ts" >>,
       << "d", "/", "f.ts" >>,
       << "f.ts" >>,
       << "g.snap" >> >>

\* What git writes for a modified file at the repository path.
FileChunk(path) ==
    << GitLine(path, path), <<"index 5e6f..7a8b 100644">>,
       MinusLine(path), PlusLine(path) >>
    \o WriteHunks(<<SecondBody>>, 1, "short", <<0, "none">>)

\* The text of a diff of the files at the pool's positions S.
TextOf(S) ==
    LET idx == SortedSeq(S)
    IN  Flatten([ i \in DOMAIN idx |-> FileChunk(RepoPathPool[idx[i]]) ]) \o << <<>> >>

DiffTexts == { TextOf(S) : S \in { T \in SUBSET DOMAIN RepoPathPool :
                                     Cardinality(T) <= MaxTextFiles } }

FetchInit ==
    /\ texts \in [ golden : DiffTexts, migration : DiffTexts ]
    /\ MatchIdle /\ ScoreIdle
    /\ parsed = NoParse
    /\ calls = << >>
    /\ fileResults = << >> /\ report = NoReport /\ previous = NoRun
    /\ registry = Loaded(Len(patterns)) /\ reglog = << >>
    /\ npc = "idle"
    /\ rpc = "start"

\* The records parseDiff returns, each with the identity of its object.
ParsedRecords(side, text) ==
    LET fds == parseDiff(text)
    IN  [ i \in DOMAIN fds |-> [ id |-> << side, i >> ] @@ fds[i] ]

\* Step 1: goldenDiffs = await fetchPRDiff(goldenPr) and migrationDiffs =
\* await fetchPRDiff(migrationPr), each parseDiff on the text gh prints
\* (readLocalDiff does the same with the text git prints).
FetchDiffs ==
    /\ rpc = "start"
    /\ goldenDiffs' = ParsedRecords("golden", texts.golden)
    /\ migrationDiffs' = ParsedRecords("migration", texts.migration)
    /\ parsed' = [ golden |-> goldenDiffs', migration |-> migrationDiffs' ]
    /\ rpc' = "input"
    /\ UNCHANGED << matchResult, mpc, parseVars, detectVars, scoreVars >>
    /\ UNCHANGED << calls, texts, fileResults, report, previous, registry, reglog, npc >>

\* The repository-relative paths a diff text names: what follows the b/
\* prefix on its "+++ " lines, one per file and in file order.
RepoPathsOf(text) ==
    LET IsPlus(l) == StartsWith(l, PLUS_PREFIX \o << "b", "/" >>)
        plusLines == Filter(text, IsPlus)
    IN  [ i \in DOMAIN plusLines |-> Slice(plusLines[i], Len(PLUS_PREFIX) + 2) ]

\* C28: parseDiff on both texts and then matchFiles pair a golden and a
\* candidate file only if their repository-relative paths are the same up
\* to the conversion of backslashes to slashes.
C28_PairedOnlyAtSamePath ==
    rpc = "matched"
        => \A i \in DOMAIN matchResult.matched :
             LET pair == matchResult.matched[i]
             IN  ReplaceBackslashes(RepoPathsOf(texts.golden)[pair.golden.id[2]])
                   = ReplaceBackslashes(RepoPathsOf(texts.migration)[pair.migration.id[2]])

(* One outcome of an evaluation changed from MISSING to INCORRECT.         *)

\* Bound: number of outcomes that follow the first one.
MaxHeavy == 12

\* The first outcome of an evaluation, and the outcome that fills the rest
\* of it: a detector of weight 3.
FirstOutcomes ==
    { makeWeightedResult("MISSING", 1), makeWeightedResult("MISSING", 2),
      makeWeightedResult("MISSING", 3), makeWeightedResult("INCORRECT", 1),
      makeWeightedResult("CORRECT", 2) }

RestOutcomes ==
    { makeWeightedResult("MISSING", 3), makeWeightedResult("CORRECT", 3),
      makeWeightedResult("NOT_APPLICABLE", 3) }

\* The noise of the evaluation, from its outcomes and its candidate lines.
NoiseOf(mr, mDiffs, results) ==
    detectNoise([ matchResult      |-> mr,
                  migrationDiffs   |-> mDiffs,
                  detectionResults |-> [ i \in DOMAIN results |-> results[i].result ] ])

\* An evaluation of one matched file whose candidate lines carry no noise.
ReclassifyInit ==
    /\ migrationDiffs = << NoiseRecord(<< "src", "/", "a.ts" >>, << plainLine >>, << otherLine >>) >>
    /\ goldenDiffs = << GoldenOf(migrationDiffs[1]) >>
    /\ matchResult = matchFiles(goldenDiffs, migrationDiffs)
    /\ mpc = "idle"
    /\ \E first \in FirstOutcomes : \E rest \in RestOutcomes : \E n \in 0..MaxHeavy :
         weightedResults = << first >> \o [ i \in 1..n |-> rest ]
    /\ noiseInstances = NoiseOf(matchResult, migrationDiffs, weightedResults)
    /\ scoreBreakdown = NoScore
    /\ spc = "input"
    /\ calls = << >> /\ rpc = "idle"
    /\ texts = NoTexts /\ parsed = NoParse
    /\ fileResults = << >> /\ report = NoReport /\ previous = NoRun
    /\ registry = << >> /\ reglog = << >>
    /\ npc = "idle"

\* The scored evaluation is kept, one of its MISSING outcomes becomes
\* INCORRECT, and the noise is computed again from the changed outcomes;
\* the match result and the candidate lines stay.
Reclassify ==
    /\ spc = "scored" /\ previous.run = 0
    /\ \E i \in DOMAIN weightedResults :
         /\ weightedResults[i].result.status = "MISSING"
         /\ weightedResults' = [ weightedResults EXCEPT ![i].result.status = "INCORRECT" ]
    /\ previous' = [ run |-> 1, weightedResults |-> weightedResults,
                     scoreBreakdown |-> scoreBreakdown ]
    /\ noiseInstances' = NoiseOf(matchResult, migrationDiffs, weightedResults')
    /\ scoreBreakdown' = NoScore
    /\ spc' = "input"
    /\ UNCHANGED << matchVars, parseVars, detectVars >>
    /\ UNCHANGED << calls, rpc, texts, parsed, fileResults, report, registry, reglog, npc >>

\* C29: changing one outcome from MISSING to INCORRECT, with the noise
\* computed again and everything else as it was, never lowers the overall
\* score.
C29_IncorrectNotBelowMissing ==
    (previous.run = 1 /\ Scored)
        => RatLE(previous.scoreBreakdown.overallScore, scoreBreakdown.overallScore)



----------------------------------------------------------------------------
(* Specifications                                                          *)

InitMatch == MatchInit /\ ParseIdle /\ DetectIdle /\ ScoreIdle /\ RunIdle
NextMatch == MatchFiles
SpecMatch == InitMatch /\ [][NextMatch]_vars

InitParse == ParseInit /\ MatchIdle /\ DetectIdle /\ ScoreIdle /\ RunIdle
NextParse == ParseDiff
SpecParse == InitParse /\ [][NextParse]_vars

InitDetect == DetectInit /\ MatchIdle /\ ParseIdle /\ ScoreIdle /\ RunIdle
NextDetect == Detect \/ DetectOther
SpecDetect == InitDetect /\ [][NextDetect]_vars

InitScore == ScoreInit /\ ParseIdle /\ DetectIdle /\ RunIdle
NextScore == ComputeScore
SpecScore == InitScore /\ [][NextScore]_vars

InitRegistry == RunIdle /\ MatchIdle /\ ParseIdle /\ DetectIdle /\ ScoreIdle
NextRegistry == RegisterPattern \/ GetPatterns \/ ClearPatterns
SpecRegistry == InitRegistry /\ [][NextRegistry]_vars

InitNoise == NoiseInit /\ ParseIdle /\ DetectIdle
NextNoise == ScanNoise
SpecNoise == InitNoise /\ [][NextNoise]_vars

InitRun == RunInit /\ ParseIdle /\ DetectIdle
NextRun == RunMatch \/ RunDetect \/ RunNoise \/ RunScore \/ RunReport
SpecRun == InitRun /\ [][NextRun]_vars

InitFetch == FetchInit /\ ParseIdle /\ DetectIdle
NextFetch == FetchDiffs \/ RunMatch
SpecFetch == InitFetch /\ [][NextFetch]_vars

InitReclassify == ReclassifyInit /\ ParseIdle /\ DetectIdle
NextReclassify == ComputeScore \/ Reclassify
SpecReclassify == InitReclassify /\ [][NextReclassify]_vars

InitRerun == RerunInit /\ ParseIdle /\ DetectIdle
NextRerun == RunMatch \/ RunDetect \/ RunNoise \/ RunScore \/ RunReport \/ RunAgain
SpecRerun == InitRerun /\ [][NextRerun]_vars

====
